---- MODULE Spec2Model ----
(***************************************************************************)
(* cloudshell: a model of one invocation of the command line client        *)
(* (src/main.go).  The foreground flow of control is Run -> initClient ->  *)
(* getToken -> start -> ssh; getToken's background goroutines (the server, *)
(* the shutdown waiter, the callback handlers) run beside it.  The Cloud   *)
(* Shell API, the OAuth token endpoint, the browser, the clock and the     *)
(* interrupt signal are the environment.                                   *)
(***************************************************************************)
EXTENDS Naturals, Sequences, FiniteSets

\* ---------------------------------------------------------------- bounds
\* The environment double reports a non-RUNNING state to at most MaxPolls
\* polls of one start call.
MaxPolls == 2
\* Callback requests the browser (or anyone) sends to the loopback server.
MaxCallbacks == 2
\* Times the local terminal is resized during one invocation.
MaxResizes == 2
\* Invocations of the program that follow the first one.
MaxInvocations == 2

\* ------------------------------------------------------------- constants
Commands == {"info", "ssh", "start", "key_list", "key_add", "key_remove"}
\* Command lines: each command, and the lines Run refuses; "K" is a public
\* key given on the command line.
ArgLines ==
  { << >>, << "info" >>, << "ssh" >>, << "start" >>, << "stop" >>, << "key" >>,
    << "key", "list" >>, << "key", "add" >>, << "key", "add", "K" >>,
    << "key", "remove" >>, << "key", "remove", "K" >>, << "key", "show" >> }
\* Mutant of lines 79-81 and 84-86: 'key add' and 'key remove' are
\* dispatched without looking for the key.
Dispatch_noKeyCheck(a) ==
  IF Len(a) = 0 THEN "invalid"
  ELSE IF a[1] \in {"info", "ssh", "start"} THEN a[1]
  ELSE IF a[1] = "key"
    THEN IF Len(a) = 1 THEN "invalid"
         ELSE IF a[2] = "list" THEN "key_list"
         ELSE IF a[2] = "add" THEN "key_add"
         ELSE IF a[2] = "remove" THEN "key_remove"
         ELSE "invalid"
  ELSE "invalid"
\* Lines 56-93: the command the switches of Run arrive at for the command
\* line a, "invalid" where Run returns ErrInvalidArgs.
Dispatch(a) ==
  IF Len(a) = 0 THEN "invalid"
  ELSE IF a[1] \in {"info", "ssh", "start"} THEN a[1]
  ELSE IF a[1] = "key"
    THEN IF Len(a) = 1 THEN "invalid"
         ELSE IF a[2] = "list" THEN "key_list"
         ELSE IF a[2] = "add" THEN (IF Len(a) = 2 THEN "invalid" ELSE "key_add")
         ELSE IF a[2] = "remove" THEN (IF Len(a) = 2 THEN "invalid" ELSE "key_remove")
         ELSE "invalid"
  ELSE "invalid"
\* environment.State values the API reports; "UNKNOWN" stands for any value
\* the client has no name for.
EnvStates == {"DISABLED", "STARTING", "RUNNING", "DELETING", "UNKNOWN"}
\* Values of the callback's "code" query parameter; "" is a missing code.
Codes == {"", "c1", "c2"}
\* Values of the callback's "state" query parameter: the one AuthCodeURL
\* was given (line 196), another one, none.
CbStates == {"state-token", "forged", ""}
Handlers == 1..MaxCallbacks

\* A public key file: the key it holds and the newlines that end it.
NoPub == [key |-> "none", nl |-> 0]
\* Key files an earlier invocation or the user left behind: key "k0" with
\* its public half (as written, or edited to end differently), or alone.
KeyFiles0 ==
  { [priv |-> "none", pub |-> NoPub], [priv |-> "k0", pub |-> NoPub] }
  \cup { [priv |-> "k0", pub |-> [key |-> "k0", nl |-> n]] : n \in 0..2 }
NoTok == [kind |-> "none", access |-> "", raw |-> FALSE]
\* The connection fields of environment: SSHHost, SSHPort, SSHUsername.
ConnFields == {"host", "port", "user"}
NoEnv == [state |-> "", fields |-> {}]
\* Modes the local terminal can be in when the process starts.
TermModes0 == {"cooked", "cbreak"}
\* Terminal sizes: width and height as term.GetSize returns them.
Sizes == { [w |-> "w1", h |-> "h1"], [w |-> "w2", h |-> "h2"] }
NoSize == [w |-> "", h |-> ""]
NoDims == [rows |-> "", cols |-> ""]

\* Contents of token.json.  "json" is a JSON object (access "" is the object
\* {}), "wrongtype" is valid JSON that is no object, "garbage" is no JSON.
TokenFiles ==
  { [kind |-> k, access |-> ""] : k \in {"absent", "unreadable", "garbage", "wrongtype"} }
  \cup { [kind |-> "json", access |-> a] : a \in {"", "a0"} }

VARIABLES
  args,       \* env.Args
  cmd,        \* the command Run dispatches to, "invalid" when it refuses
  secret,     \* client_secret.json: "ok", "missing", "malformed"
  pc,         \* position of the foreground flow of control
  authed,     \* app.authed
  result,     \* what Run returned: "pending", "nil" or an error
  ctxDone,    \* the governing context is canceled
  cancelPc,   \* where the foreground was when the context was canceled
  tokenFile,  \* content of token.json
  tokenFile0, \* content of token.json when the process started
  listener,   \* l: "none", "open", "closed"
  serve,      \* goroutine running srv.Serve: "none", "running", "done"
  shut,       \* goroutine waiting to call srv.Shutdown
  hpc,        \* per callback request: position of its handler
  hcode,      \* per callback request: its code parameter
  hstate,     \* per callback request: its state parameter
  codeQ,      \* handlers blocked sending on codeCh, in arrival order
  shutQ,      \* handlers blocked sending on shutdownCh, in arrival order
  gsel,       \* case chosen by getToken's select: "none", "code", "done"
  authCode,   \* the code getToken's select received
  tok,        \* the token getToken returned
  tokRet,     \* getToken's error result: "none" while it has not returned
  urlShown,   \* the authorization URL was opened or printed
  nExchange,  \* calls of oauthConfig.Exchange
  nWrites,    \* calls of os.WriteFile(tokenFile, ...)
  nGetToken,  \* calls of getToken
  nListen,    \* listeners net.Listen has opened
  otherRead,  \* what another invocation's os.ReadFile(tokenFile) returned
  touched,    \* what initClient has created or read in the state directory
  privKey,    \* the managed private key file: "none" or the key it holds
  pubKey,     \* the managed public key file: its key and trailing newlines
  envState,   \* the provider's environment state
  interfered, \* the provider changed state after start returned
  nPosts,     \* ':start' POSTs issued
  nGets,      \* getEnvironment calls issued by start
  nFailed,    \* requests of start that returned an error
  obs,        \* states start's polls observed, in order
  tickReady,  \* ticker.C holds a tick (buffer of one)
  tickerOn,   \* the ticker exists and is not stopped
  sel,        \* case chosen by start's select: "none", "tick", "done"
  startRet,   \* what start returned: "none" while it has not
  sshEnv,     \* the environment ssh fetched for sshExec
  envFields,  \* connection fields the provider's environment has populated
  keyRead,    \* sshExec has read the private key file
  nDials,     \* calls of ssh.Dial
  client,     \* the SSH connection: "none", "open", "closed"
  session,    \* the session channel: "none", "open", "closed"
  termMode,   \* mode of the local terminal: "cooked", "raw"
  ptyReq,     \* session.RequestPty was called
  shellReq,   \* session.Shell was called
  termMode0,  \* mode of the local terminal when the process started
  oldState,   \* the mode term.MakeRaw saved: "none" before it succeeds
  isTerm,     \* standard input is a terminal
  dims,       \* width, height sshExec read with term.GetSize
  remote,     \* how the remote side ended the session: "none" while it runs
  termSize,   \* current size of the local terminal
  notifyOn,   \* signal.Notify(winch, SIGWINCH) is in effect
  winch,      \* the one-slot channel winch holds a signal
  relay,      \* the resize goroutine: "none", "waiting", "query", "send"
  relaySize,  \* width, height the resize goroutine read
  sentDims,   \* rows, columns last sent to the remote side
  nResize,    \* resizes of the local terminal so far
  nTaken,     \* signals the resize goroutine took from winch
  nHandled,   \* signals it has finished with (sent, failed or skipped)
  nLate,      \* session.WindowChange calls made after sshExec returned
  relayErr,   \* a size query or window-change call of the goroutine failed
  deferred,   \* the calls sshExec has deferred, in the order of the defers
  ran,        \* the deferred calls in the order they ran at the return
  reqKeys,    \* PublicKeys of the startRequest start has built
  posted,     \* PublicKeys of the ':start' requests sent, in order
  infoEnv,    \* the environment info fetched
  out,        \* the lines info has logged
  nKeyReqs,   \* requests the key commands have sent
  sent,       \* operations whose HTTP request was sent, in order
  resps,      \* how the requests ended, in order
  nInvoke     \* invocations of the program before this one

vars == << args, cmd, secret, pc, authed, result, ctxDone, cancelPc, tokenFile,
           tokenFile0, listener, serve, shut, hpc, hcode, hstate, codeQ, shutQ, gsel,
           authCode, tok, tokRet, urlShown, nExchange, nWrites, privKey,
           pubKey, envState, interfered, nPosts, nGets, nFailed, obs,
           tickReady, tickerOn, sel, startRet, sshEnv, nGetToken, nListen,
           otherRead, touched, envFields, keyRead, nDials, client, session, termMode,
           ptyReq, shellReq, termMode0, oldState, isTerm, dims, remote,
           termSize, notifyOn, winch, relay, relaySize, sentDims, nResize,
           nTaken, nHandled, nLate, relayErr, deferred, ran, reqKeys, posted, infoEnv, out, nKeyReqs,
           sent, resps, nInvoke >>

tokenVars == << tokenFile, listener, serve, shut, hpc, hcode, hstate, codeQ, shutQ,
                gsel, authCode, tok, tokRet, urlShown, nExchange, nWrites >>
startVars == << privKey, pubKey, nPosts, nGets, nFailed, obs, tickReady,
                tickerOn, sel, startRet, sshEnv >>
procVars  == << args, cmd, secret, tokenFile0, nInvoke >>
auxVars   == << nGetToken, nListen, otherRead, touched >>
sshVars   == << keyRead, nDials, client, session, termMode, ptyReq, shellReq,
                termMode0, oldState, isTerm, dims, remote >>
relayVars == << termSize, notifyOn, winch, relay, relaySize, sentDims, nResize,
                nTaken, nHandled, nLate, relayErr >>
deferVars == << deferred, ran >>
cmdVars   == << reqKeys, posted, infoEnv, out, nKeyReqs >>
reqVars   == << sent, resps >>

\* ------------------------------------------------------------- helpers
\* Mutant of line 145: a token without an access token is not accepted.
Parses_nonEmpty(f) == f.kind = "json" /\ f.access # ""
\* json.Unmarshal(tokb, &tok) succeeds: the file holds a JSON object.
Parses(f) == f.kind = "json"
\* json.Unmarshal into oauth2.Token: the exported fields are read; the
\* unexported raw field (Token.Extra) is never part of the file.
Unmarshal(f) == [kind |-> "tok", access |-> f.access, raw |-> FALSE]
\* json.MarshalIndent(newtok): the exported fields only.
MarshalIndent(t) == [kind |-> "json", access |-> t.access]
\* The token endpoint's response to a code; Exchange keeps the raw response.
ExchangeResponse(code) ==
  [kind |-> "tok", access |-> IF code = "c1" THEN "a1" ELSE "a2", raw |-> TRUE]
\* What the API's GET returns: the provider's state and the connection
\* fields it has populated (the others are "" or 0).
EnvOf(s, f) == [state |-> s, fields |-> f]
\* Connection fields a provider can have populated in state s: none unless
\* the environment is running.
FieldsIn(s) == IF s = "RUNNING" THEN SUBSET ConnFields ELSE { {} }
\* How a request made with the governing context ends.
RequestOutcomes ==
  IF ctxDone THEN {"err_canceled"} ELSE {"ok", "err_transport", "err_status"}
\* makeRequest hands one request for operation op to request.Make.
Sends(op) == /\ sent' = Append(sent, op)
             /\ UNCHANGED resps
\* The request in flight ends with outcome o.
Answers(o) == /\ resps' = Append(resps, o)
              /\ UNCHANGED sent
\* Mutants of line 392: any state but DISABLED ends the loop; the state is
\* compared with the wrong literal.
IsRunning_notDisabled(e) == e.state # "DISABLED"
IsRunning_lowercase(e) == e.state = "running"
\* Line 392: the poll ends the loop.
IsRunning(e) == e.state = "RUNNING"
\* Mutant of line 400: the select's ctx.Done() case returns ctx.Err().
CanceledStartResult_ctxErr == "err_canceled"
\* Line 400: what start returns when its select takes ctx.Done().
CanceledStartResult == "nil"
\* Mutant of line 409: only the host is tested.
Unavailable_hostOnly(e) == "host" \notin e.fields
\* Line 409: sshExec's availability check.
Unavailable(e) ==
  "host" \notin e.fields \/ "port" \notin e.fields \/ "user" \notin e.fields
\* The caller of initClient that runs getToken (the first one of the process).
InitCaller ==
  IF cmd = "ssh" THEN "ssh_init"
  ELSE IF cmd = "start" THEN "st_init"
  ELSE IF cmd = "info" THEN "info_init" ELSE "key_init"
\* Where initClient returns to: ssh calls start (line 350), start goes on to
\* ensureSSHKey (364), info and keyList to their get (310, 510), keyAdd and
\* keyRemove to their POST (529, 545).
AfterInit(at) ==
  IF at = "ssh_init" THEN "st_init"
  ELSE IF at = "st_init" THEN "st_key"
  ELSE IF at = "info_init" THEN "info_get" ELSE "key_req"
InitPcs == {"ssh_init", "st_init", "info_init", "key_init"}

Init ==
  /\ args \in ArgLines
  /\ cmd = Dispatch(args)
  /\ secret \in {"ok", "missing", "malformed"}
  /\ pc = "run"
  /\ authed = FALSE
  /\ result = "pending"
  /\ ctxDone = FALSE
  /\ cancelPc = "none"
  /\ tokenFile \in TokenFiles
  /\ tokenFile0 = tokenFile
  /\ listener = "none"
  /\ serve = "none"
  /\ shut = "none"
  /\ hpc = [h \in Handlers |-> "none"]
  /\ hcode = [h \in Handlers |-> ""]
  /\ hstate = [h \in Handlers |-> ""]
  /\ codeQ = << >>
  /\ shutQ = << >>
  /\ gsel = "none"
  /\ authCode = ""
  /\ tok = NoTok
  /\ tokRet = "none"
  /\ urlShown = FALSE
  /\ nExchange = 0
  /\ nWrites = 0
  /\ nGetToken = 0
  /\ nListen = 0
  /\ otherRead = [kind |-> "none", access |-> ""]
  /\ touched = {}
  /\ \E k \in KeyFiles0 :
       /\ privKey = k.priv
       /\ pubKey = k.pub
  /\ reqKeys = << >>
  /\ posted = << >>
  /\ infoEnv = NoEnv
  /\ out = << >>
  /\ nKeyReqs = 0
  /\ sent = << >>
  /\ resps = << >>
  /\ nInvoke = 0
  /\ envState \in EnvStates
  /\ envFields \in FieldsIn(envState)
  /\ keyRead = FALSE
  /\ nDials = 0
  /\ client = "none"
  /\ session = "none"
  /\ termMode \in TermModes0
  /\ ptyReq = FALSE
  /\ shellReq = FALSE
  /\ termMode0 = termMode
  /\ oldState = "none"
  /\ isTerm \in BOOLEAN
  /\ dims = NoSize
  /\ remote = "none"
  /\ termSize = [w |-> "w1", h |-> "h1"]
  /\ notifyOn = FALSE
  /\ winch = FALSE
  /\ relay = "none"
  /\ relaySize = NoSize
  /\ sentDims = NoDims
  /\ nResize = 0
  /\ nTaken = 0
  /\ nHandled = 0
  /\ nLate = 0
  /\ relayErr = FALSE
  /\ deferred = << >>
  /\ ran = << >>
  /\ interfered = FALSE
  /\ nPosts = 0
  /\ nGets = 0
  /\ nFailed = 0
  /\ obs = << >>
  /\ tickReady = FALSE
  /\ tickerOn = FALSE
  /\ sel = "none"
  /\ startRet = "none"
  /\ sshEnv = NoEnv

\* Run returns r: the process ends.
Exit(r) == /\ result' = r
           /\ pc' = "exit"

\* ------------------------------------------------------------ Run, initClient
\* Lines 53-94: Run refuses an invalid command line and otherwise calls the
\* command's function, which begins with initClient.
Run ==
  /\ pc = "run"
  /\ IF cmd = "invalid"
       THEN Exit("err_invalid_args")
       ELSE /\ pc' = InitCaller
            /\ UNCHANGED result
  /\ UNCHANGED << authed, ctxDone, cancelPc, envState, envFields, interfered >>
  /\ UNCHANGED << tokenVars, startVars, procVars, reqVars, cmdVars, relayVars, sshVars, deferVars, auxVars >>

\* Mutant of lines 263-265: initClient does not look at a.authed.
initClient_noAuthedCheck ==
  /\ pc \in InitPcs
  /\ IF secret = "ok"
       THEN /\ pc' = "gt_read"
            /\ nGetToken' = nGetToken + 1
            /\ UNCHANGED result
       ELSE /\ Exit("err_config")
            /\ UNCHANGED nGetToken
  /\ UNCHANGED << authed, ctxDone, cancelPc, envState, envFields, interfered >>
  /\ UNCHANGED << tokenVars, startVars, procVars, reqVars, cmdVars, relayVars, sshVars, deferVars, nListen, otherRead >>
  /\ touched' = {"stateDir", "client_secret.json"}

\* Mutant of lines 284-294: a client_secret.json that cannot be read or
\* parsed is not an error.
initClient_ignoresSecret ==
  /\ pc \in InitPcs
  /\ IF authed
       THEN /\ pc' = AfterInit(pc)
            /\ UNCHANGED << result, nGetToken >>
       ELSE /\ pc' = "gt_read"
            /\ nGetToken' = nGetToken + 1
            /\ UNCHANGED result
  /\ UNCHANGED << authed, ctxDone, cancelPc, envState, envFields, interfered >>
  /\ UNCHANGED << tokenVars, startVars, procVars, reqVars, cmdVars, relayVars, sshVars, deferVars, nListen, otherRead >>
  /\ touched' = IF authed THEN touched ELSE {"stateDir", "client_secret.json"}

\* initClient up to the call of getToken (lines 262-294).
initClient ==
  /\ pc \in InitPcs
  /\ IF authed
       THEN /\ pc' = AfterInit(pc)
            /\ UNCHANGED << result, nGetToken >>
       ELSE IF secret = "ok"
              THEN /\ pc' = "gt_read"
                   /\ nGetToken' = nGetToken + 1
                   /\ UNCHANGED result
              ELSE /\ Exit("err_config")
                   /\ UNCHANGED nGetToken
  /\ UNCHANGED << authed, ctxDone, cancelPc, envState, envFields, interfered >>
  /\ UNCHANGED << tokenVars, startVars, procVars, reqVars, cmdVars, relayVars, sshVars, deferVars, nListen, otherRead >>
  /\ touched' = IF authed THEN touched ELSE {"stateDir", "client_secret.json"}

\* getToken returns (t, r) to initClient, whose lines 295-302 follow; the
\* deferred l.Close() has run when lst = "closed".
GetTokenReturn(t, r, lst) ==
  /\ tok' = t
  /\ tokRet' = r
  /\ listener' = lst
  /\ IF r = "ok"
       THEN /\ authed' = TRUE
            /\ pc' = AfterInit(InitCaller)
            /\ UNCHANGED result
       ELSE /\ Exit(r)
            /\ UNCHANGED authed

\* ------------------------------------------------------------ getToken
\* Mutant of lines 142-148: a token.json that exists and cannot be read or
\* unmarshalled is an error.
getTokenLoad_strict ==
  /\ pc = "gt_read"
  /\ IF Parses(tokenFile)
       THEN GetTokenReturn(Unmarshal(tokenFile), "ok", listener)
       ELSE IF tokenFile.kind = "absent"
              THEN /\ pc' = "gt_listen"
                   /\ UNCHANGED << tok, tokRet, listener, authed, result >>
              ELSE GetTokenReturn(NoTok, "err_token", listener)
  /\ UNCHANGED << ctxDone, cancelPc, envState, envFields, interfered >>
  /\ UNCHANGED << tokenFile, serve, shut, hpc, hcode, hstate, codeQ, shutQ, gsel,
                  authCode, urlShown, nExchange, nWrites >>
  /\ UNCHANGED << startVars, procVars, reqVars, cmdVars, relayVars, sshVars, deferVars, auxVars >>

\* Lines 142-148: the cached token is returned when the file reads and
\* unmarshals; otherwise fall through to the authorization flow.
getTokenLoad ==
  /\ pc = "gt_read"
  /\ IF Parses(tokenFile)
       THEN GetTokenReturn(Unmarshal(tokenFile), "ok", listener)
       ELSE /\ pc' = "gt_listen"
            /\ UNCHANGED << tok, tokRet, listener, authed, result >>
  /\ UNCHANGED << ctxDone, cancelPc, envState, envFields, interfered >>
  /\ UNCHANGED << tokenFile, serve, shut, hpc, hcode, hstate, codeQ, shutQ, gsel,
                  authCode, urlShown, nExchange, nWrites >>
  /\ UNCHANGED << startVars, procVars, reqVars, cmdVars, relayVars, sshVars, deferVars, auxVars >>

\* Lines 151-156: net.Listen on an ephemeral loopback port; l.Close is deferred.
getTokenListen ==
  /\ pc = "gt_listen"
  /\ \E ok \in BOOLEAN :
       IF ok
         THEN /\ listener' = "open"
              /\ nListen' = nListen + 1
              /\ pc' = "gt_serve"
              /\ UNCHANGED << tok, tokRet, authed, result >>
         ELSE /\ GetTokenReturn(NoTok, "err_listen", listener)
              /\ UNCHANGED nListen
  /\ UNCHANGED << ctxDone, cancelPc, envState, envFields, interfered >>
  /\ UNCHANGED << tokenFile, serve, shut, hpc, hcode, hstate, codeQ, shutQ, gsel,
                  authCode, urlShown, nExchange, nWrites >>
  /\ UNCHANGED << startVars, procVars, reqVars, cmdVars, relayVars, sshVars, deferVars, nGetToken, otherRead, touched >>

\* Lines 158-217: the two goroutines are started, the authorization URL is
\* opened in the browser or printed.
getTokenServe ==
  /\ pc = "gt_serve"
  /\ serve' = "running"
  /\ shut' = "select"
  /\ urlShown' = TRUE
  /\ pc' = "gt_select"
  /\ UNCHANGED << authed, result, ctxDone, cancelPc, envState, envFields, interfered >>
  /\ UNCHANGED << tokenFile, listener, hpc, hcode, hstate, codeQ, shutQ, gsel,
                  authCode, tok, tokRet, nExchange, nWrites >>
  /\ UNCHANGED << startVars, procVars, reqVars, cmdVars, relayVars, sshVars, deferVars, auxVars >>

\* Mutant of lines 219-220: the codes of all waiting handlers are received
\* and the last one is kept.
getTokenSelect_all ==
  /\ pc = "gt_select"
  /\ \/ /\ codeQ # << >>
        /\ gsel' = "code"
        /\ authCode' = hcode[codeQ[Len(codeQ)]]
        /\ hpc' = [h \in Handlers |->
                    IF \E i \in DOMAIN codeQ : codeQ[i] = h THEN "at_shutdown"
                                                         ELSE hpc[h]]
        /\ codeQ' = << >>
        /\ pc' = "gt_chosen"
     \/ /\ ctxDone
        /\ gsel' = "done"
        /\ pc' = "gt_chosen"
        /\ UNCHANGED << authCode, hpc, codeQ >>
     \/ /\ codeQ = << >>
        /\ ~ctxDone
        /\ pc' = "gt_parked"
        /\ UNCHANGED << gsel, authCode, hpc, codeQ >>
  /\ UNCHANGED << authed, result, ctxDone, cancelPc, envState, envFields, interfered >>
  /\ UNCHANGED << tokenFile, listener, serve, shut, hcode, hstate, shutQ, tok, tokRet,
                  urlShown, nExchange, nWrites >>
  /\ UNCHANGED << startVars, procVars, reqVars, cmdVars, relayVars, sshVars, deferVars, auxVars >>

\* Line 219: the select takes a ready case (any of them when both are
\* ready); with none ready the goroutine parks on both channels.
getTokenSelect ==
  /\ pc = "gt_select"
  /\ \/ /\ codeQ # << >>
        /\ gsel' = "code"
        /\ authCode' = hcode[Head(codeQ)]
        /\ hpc' = [hpc EXCEPT ![Head(codeQ)] = "at_shutdown"]
        /\ codeQ' = Tail(codeQ)
        /\ pc' = "gt_chosen"
     \/ /\ ctxDone
        /\ gsel' = "done"
        /\ pc' = "gt_chosen"
        /\ UNCHANGED << authCode, hpc, codeQ >>
     \/ /\ codeQ = << >>
        /\ ~ctxDone
        /\ pc' = "gt_parked"
        /\ UNCHANGED << gsel, authCode, hpc, codeQ >>
  /\ UNCHANGED << authed, result, ctxDone, cancelPc, envState, envFields, interfered >>
  /\ UNCHANGED << tokenFile, listener, serve, shut, hcode, hstate, shutQ, tok, tokRet,
                  urlShown, nExchange, nWrites >>
  /\ UNCHANGED << startVars, procVars, reqVars, cmdVars, relayVars, sshVars, deferVars, auxVars >>

\* Mutant of lines 220-229: the file is written before the exchange's error
\* is looked at.
getTokenExchange_saveFirst ==
  /\ pc = "gt_chosen"
  /\ gsel = "code"
  /\ nExchange' = nExchange + 1
  /\ \E ok \in (IF ctxDone THEN {FALSE} ELSE BOOLEAN) :
       IF ok
         THEN /\ pc' = "gt_write"
              /\ UNCHANGED << tok, tokRet, listener, authed, result, tokenFile >>
         ELSE /\ tokenFile' = [kind |-> "wrongtype", access |-> ""]
              /\ GetTokenReturn(NoTok, "err_exchange", "closed")
  /\ UNCHANGED << ctxDone, cancelPc, envState, envFields, interfered >>
  /\ UNCHANGED << serve, shut, hpc, hcode, hstate, codeQ, shutQ, gsel,
                  authCode, urlShown, nWrites >>
  /\ UNCHANGED << startVars, procVars, reqVars, cmdVars, relayVars, sshVars, deferVars, auxVars >>

\* Lines 220-223: exchange the code for a token.
getTokenExchange ==
  /\ pc = "gt_chosen"
  /\ gsel = "code"
  /\ nExchange' = nExchange + 1
  /\ \E ok \in (IF ctxDone THEN {FALSE} ELSE BOOLEAN) :
       IF ok
         THEN /\ pc' = "gt_write"
              /\ UNCHANGED << tok, tokRet, listener, authed, result >>
         ELSE GetTokenReturn(NoTok, "err_exchange", "closed")
  /\ UNCHANGED << ctxDone, cancelPc, envState, envFields, interfered >>
  /\ UNCHANGED << tokenFile, serve, shut, hpc, hcode, hstate, codeQ, shutQ, gsel,
                  authCode, urlShown, nWrites >>
  /\ UNCHANGED << startVars, procVars, reqVars, cmdVars, relayVars, sshVars, deferVars, auxVars >>

\* A file os.WriteFile has opened with O_TRUNC and not yet filled: empty or
\* partly written, no JSON value.
PartialFile == [kind |-> "partial", access |-> ""]

\* Lines 225-229: os.WriteFile(tokenFile, tokb, 0o600) opens token.json in
\* place, creating or truncating it; a failed open leaves the file alone.
getTokenWriteOpen ==
  /\ pc = "gt_write"
  /\ nWrites' = nWrites + 1
  /\ \E ok \in BOOLEAN :
       IF ok
         THEN /\ tokenFile' = PartialFile
              /\ pc' = "gt_writing"
              /\ UNCHANGED << tok, tokRet, listener, authed, result >>
         ELSE /\ GetTokenReturn(NoTok, "err_write", "closed")
              /\ UNCHANGED tokenFile
  /\ UNCHANGED << ctxDone, cancelPc, envState, envFields, interfered >>
  /\ UNCHANGED << serve, shut, hpc, hcode, hstate, codeQ, shutQ, gsel, authCode,
                  urlShown, nExchange >>
  /\ UNCHANGED << startVars, procVars, reqVars, cmdVars, relayVars, sshVars, deferVars, auxVars >>

\* Mutant of line 225: the saved bytes do not carry the token's fields.
SavedBytes_empty(t) == [kind |-> "json", access |-> ""]
\* Line 225: the bytes written are the marshalled token.
SavedBytes(t) == MarshalIndent(t)

\* Lines 229-232: os.WriteFile writes the bytes and closes the file, then
\* getToken returns the exchanged token; a failed write leaves the file as
\* far as it got and getToken returns the error.
getTokenWriteDone ==
  /\ pc = "gt_writing"
  /\ \E ok \in BOOLEAN :
       IF ok
         THEN /\ tokenFile' = SavedBytes(ExchangeResponse(authCode))
              /\ GetTokenReturn(ExchangeResponse(authCode), "ok", "closed")
         ELSE /\ GetTokenReturn(NoTok, "err_write", "closed")
              /\ UNCHANGED tokenFile
  /\ UNCHANGED << ctxDone, cancelPc, envState, envFields, interfered >>
  /\ UNCHANGED << serve, shut, hpc, hcode, hstate, codeQ, shutQ, gsel, authCode,
                  urlShown, nExchange, nWrites >>
  /\ UNCHANGED << startVars, procVars, reqVars, cmdVars, relayVars, sshVars, deferVars, auxVars >>

\* Lines 142-143 in another invocation of the program: its os.ReadFile of
\* token.json returns whatever the file holds at that instant.
otherLoad ==
  /\ otherRead.kind = "none"
  /\ pc \notin {"run", "exit"}
  /\ otherRead' = tokenFile
  /\ UNCHANGED << pc, authed, result, ctxDone, cancelPc, envState, envFields, interfered >>
  /\ UNCHANGED << tokenVars, startVars, procVars, reqVars, cmdVars, relayVars, sshVars, deferVars, nGetToken, nListen, touched >>

\* Mutant of lines 155 and 233-234: the cancellation path returns without
\* closing the listener.
getTokenCanceled_noClose ==
  /\ pc = "gt_chosen"
  /\ gsel = "done"
  /\ GetTokenReturn(NoTok, "err_canceled", listener)
  /\ UNCHANGED << ctxDone, cancelPc, envState, envFields, interfered >>
  /\ UNCHANGED << tokenFile, serve, shut, hpc, hcode, hstate, codeQ, shutQ, gsel,
                  authCode, urlShown, nExchange, nWrites >>
  /\ UNCHANGED << startVars, procVars, reqVars, cmdVars, relayVars, sshVars, deferVars, auxVars >>

\* Mutant of lines 233-234: the ctx.Done() case returns no error, as
\* start's does.
getTokenCanceled_nil ==
  /\ pc = "gt_chosen"
  /\ gsel = "done"
  /\ GetTokenReturn(NoTok, "ok", "closed")
  /\ UNCHANGED << ctxDone, cancelPc, envState, envFields, interfered >>
  /\ UNCHANGED << tokenFile, serve, shut, hpc, hcode, hstate, codeQ, shutQ, gsel,
                  authCode, urlShown, nExchange, nWrites >>
  /\ UNCHANGED << startVars, procVars, reqVars, cmdVars, relayVars, sshVars, deferVars, auxVars >>

\* Lines 233-234: the select took ctx.Done().
getTokenCanceled ==
  /\ pc = "gt_chosen"
  /\ gsel = "done"
  /\ GetTokenReturn(NoTok, "err_canceled", "closed")
  /\ UNCHANGED << ctxDone, cancelPc, envState, envFields, interfered >>
  /\ UNCHANGED << tokenFile, serve, shut, hpc, hcode, hstate, codeQ, shutQ, gsel,
                  authCode, urlShown, nExchange, nWrites >>
  /\ UNCHANGED << startVars, procVars, reqVars, cmdVars, relayVars, sshVars, deferVars, auxVars >>

\* Mutant of lines 165-169: the handler also rejects a callback whose state
\* is not the one sent.
callbackHandler_checksState(h, c, s) ==
  /\ pc # "exit"
  /\ hpc[h] = "none"
  /\ \A g \in Handlers : g < h => hpc[g] # "none"
  /\ serve = "running"
  /\ listener = "open"
  /\ hcode' = [hcode EXCEPT ![h] = c]
  /\ hstate' = [hstate EXCEPT ![h] = s]
  /\ IF c = "" \/ s # "state-token"
       THEN /\ hpc' = [hpc EXCEPT ![h] = "bad_request"]
            /\ UNCHANGED << pc, gsel, authCode, codeQ >>
       ELSE IF pc = "gt_parked"
              THEN /\ hpc' = [hpc EXCEPT ![h] = "at_shutdown"]
                   /\ gsel' = "code"
                   /\ authCode' = c
                   /\ pc' = "gt_chosen"
                   /\ UNCHANGED codeQ
              ELSE /\ hpc' = [hpc EXCEPT ![h] = "send_code"]
                   /\ codeQ' = Append(codeQ, h)
                   /\ UNCHANGED << pc, gsel, authCode >>
  /\ UNCHANGED << authed, result, ctxDone, cancelPc, envState, envFields, interfered >>
  /\ UNCHANGED << tokenFile, listener, serve, shut, shutQ, tok, tokRet,
                  urlShown, nExchange, nWrites >>
  /\ UNCHANGED << startVars, procVars, reqVars, cmdVars, relayVars, sshVars, deferVars, auxVars >>

\* Mutant of lines 165-169: the handler does not test the code for "".
callbackHandler_noCheck(h, c, s) ==
  /\ pc # "exit"
  /\ hpc[h] = "none"
  /\ \A g \in Handlers : g < h => hpc[g] # "none"
  /\ serve = "running"
  /\ listener = "open"
  /\ hcode' = [hcode EXCEPT ![h] = c]
  /\ hstate' = [hstate EXCEPT ![h] = s]
  /\ IF pc = "gt_parked"
       THEN /\ hpc' = [hpc EXCEPT ![h] = "at_shutdown"]
            /\ gsel' = "code"
            /\ authCode' = c
            /\ pc' = "gt_chosen"
            /\ UNCHANGED codeQ
       ELSE /\ hpc' = [hpc EXCEPT ![h] = "send_code"]
            /\ codeQ' = Append(codeQ, h)
            /\ UNCHANGED << pc, gsel, authCode >>
  /\ UNCHANGED << authed, result, ctxDone, cancelPc, envState, envFields, interfered >>
  /\ UNCHANGED << tokenFile, listener, serve, shut, shutQ, tok, tokRet,
                  urlShown, nExchange, nWrites >>
  /\ UNCHANGED << startVars, procVars, reqVars, cmdVars, relayVars, sshVars, deferVars, auxVars >>

\* Lines 164-171: a callback request is accepted and handled up to the send
\* on codeCh.  A parked getToken receives the code at once; otherwise the
\* handler blocks in the send.
callbackHandler(h, c, s) ==
  /\ pc # "exit"
  /\ hpc[h] = "none"
  /\ \A g \in Handlers : g < h => hpc[g] # "none"
  /\ serve = "running"
  /\ listener = "open"
  /\ hcode' = [hcode EXCEPT ![h] = c]
  /\ hstate' = [hstate EXCEPT ![h] = s]
  /\ IF c = ""
       THEN /\ hpc' = [hpc EXCEPT ![h] = "bad_request"]
            /\ UNCHANGED << pc, gsel, authCode, codeQ >>
       ELSE IF pc = "gt_parked"
              THEN /\ hpc' = [hpc EXCEPT ![h] = "at_shutdown"]
                   /\ gsel' = "code"
                   /\ authCode' = c
                   /\ pc' = "gt_chosen"
                   /\ UNCHANGED codeQ
              ELSE /\ hpc' = [hpc EXCEPT ![h] = "send_code"]
                   /\ codeQ' = Append(codeQ, h)
                   /\ UNCHANGED << pc, gsel, authCode >>
  /\ UNCHANGED << authed, result, ctxDone, cancelPc, envState, envFields, interfered >>
  /\ UNCHANGED << tokenFile, listener, serve, shut, shutQ, tok, tokRet,
                  urlShown, nExchange, nWrites >>
  /\ UNCHANGED << startVars, procVars, reqVars, cmdVars, relayVars, sshVars, deferVars, auxVars >>

\* Lines 172-174: the handler signals the shutdown goroutine and returns;
\* it blocks in the send while nobody receives.
callbackShutdown(h) ==
  /\ pc # "exit"
  /\ hpc[h] = "at_shutdown"
  /\ IF shut = "parked"
       THEN /\ shut' = "shutdown"
            /\ hpc' = [hpc EXCEPT ![h] = "done"]
            /\ UNCHANGED shutQ
       ELSE /\ hpc' = [hpc EXCEPT ![h] = "send_shutdown"]
            /\ shutQ' = Append(shutQ, h)
            /\ UNCHANGED shut
  /\ UNCHANGED << pc, authed, result, ctxDone, cancelPc, envState, envFields, interfered >>
  /\ UNCHANGED << tokenFile, listener, serve, hcode, hstate, codeQ, gsel, authCode,
                  tok, tokRet, urlShown, nExchange, nWrites >>
  /\ UNCHANGED << startVars, procVars, reqVars, cmdVars, relayVars, sshVars, deferVars, auxVars >>

\* Lines 185-194: the shutdown goroutine's select.
shutdownSelect ==
  /\ pc # "exit"
  /\ shut = "select"
  /\ \/ /\ shutQ # << >>
        /\ shut' = "shutdown"
        /\ hpc' = [hpc EXCEPT ![Head(shutQ)] = "done"]
        /\ shutQ' = Tail(shutQ)
     \/ /\ ctxDone
        /\ shut' = "done"
        /\ UNCHANGED << hpc, shutQ >>
     \/ /\ shutQ = << >>
        /\ ~ctxDone
        /\ shut' = "parked"
        /\ UNCHANGED << hpc, shutQ >>
  /\ UNCHANGED << pc, authed, result, ctxDone, cancelPc, envState, envFields, interfered >>
  /\ UNCHANGED << tokenFile, listener, serve, hcode, hstate, codeQ, gsel, authCode,
                  tok, tokRet, urlShown, nExchange, nWrites >>
  /\ UNCHANGED << startVars, procVars, reqVars, cmdVars, relayVars, sshVars, deferVars, auxVars >>

\* A handler is running: srv.Shutdown waits for its connection.
Active(h) == hpc[h] \in {"send_code", "at_shutdown", "send_shutdown"}

\* Line 188: srv.Shutdown(ctx) closes the listener, then waits until every
\* connection is idle or ctx is done.
serverShutdown ==
  /\ pc # "exit"
  /\ \/ /\ shut = "shutdown"
        /\ listener' = "closed"
        /\ shut' = "draining"
     \/ /\ shut = "draining"
        /\ ctxDone \/ \A h \in Handlers : ~Active(h)
        /\ shut' = "done"
        /\ UNCHANGED listener
  /\ UNCHANGED << pc, authed, result, ctxDone, cancelPc, envState, envFields, interfered >>
  /\ UNCHANGED << tokenFile, serve, hpc, hcode, hstate, codeQ, shutQ, gsel, authCode,
                  tok, tokRet, urlShown, nExchange, nWrites >>
  /\ UNCHANGED << startVars, procVars, reqVars, cmdVars, relayVars, sshVars, deferVars, auxVars >>

\* Lines 178-182: srv.Serve returns once the listener is closed.
serverServe ==
  /\ pc # "exit"
  /\ serve = "running"
  /\ listener = "closed"
  /\ serve' = "done"
  /\ UNCHANGED << pc, authed, result, ctxDone, cancelPc, envState, envFields, interfered >>
  /\ UNCHANGED << tokenFile, listener, shut, hpc, hcode, hstate, codeQ, shutQ, gsel,
                  authCode, tok, tokRet, urlShown, nExchange, nWrites >>
  /\ UNCHANGED << startVars, procVars, reqVars, cmdVars, relayVars, sshVars, deferVars, auxVars >>

\* ------------------------------------------------------------ start, ssh
\* start returns r to its caller: Run (command start) or ssh (lines 350-353).
StartReturn(r) ==
  /\ startRet' = r
  /\ tickerOn' = FALSE
  /\ IF r = "nil" /\ cmd = "ssh"
       THEN /\ pc' = "ssh_get"
            /\ UNCHANGED result
       ELSE Exit(r)

\* The pair rsa.GenerateKey makes in this invocation; the public key file
\* ssh.MarshalAuthorizedKey gives ends with one newline.
NewPub == [key |-> "k1", nl |-> 1]

\* A key file whose os.WriteFile failed after the file was created or
\* truncated: it exists and holds no key.
PartialPub == [key |-> "partial", nl |-> 0]
\* Lines 109-131: how generating and writing the pair ends, given the files
\* priv and pub as they are: both files written; rsa.GenerateKey or the
\* opening of the private key file fails; the private key file is left
\* partly written; the private key file is written and ssh.NewPublicKey or
\* the opening of the public key file fails; the public key file is left
\* partly written.
GenerateOutcomes(priv, pub) ==
  { [ok |-> TRUE, priv |-> "k1", pub |-> NewPub],
    [ok |-> FALSE, priv |-> priv, pub |-> pub],
    [ok |-> FALSE, priv |-> "partial", pub |-> pub],
    [ok |-> FALSE, priv |-> "k1", pub |-> pub],
    [ok |-> FALSE, priv |-> "k1", pub |-> PartialPub] }

\* Mutant of lines 102-104: the pair is generated whether or not the private
\* key file exists.
ensureSSHKey_always ==
  /\ pc = "st_key"
  /\ \E o \in GenerateOutcomes(privKey, pubKey) :
       /\ privKey' = o.priv
       /\ pubKey' = o.pub
       /\ IF o.ok
            THEN /\ pc' = "st_pub"
                 /\ UNCHANGED << startRet, tickerOn, result >>
            ELSE StartReturn("err_key")
  /\ UNCHANGED << authed, ctxDone, cancelPc, envState, envFields, interfered >>
  /\ UNCHANGED << nPosts, nGets, nFailed, obs, tickReady, sel, sshEnv >>
  /\ UNCHANGED << tokenVars, procVars, reqVars, cmdVars, relayVars, sshVars, deferVars, auxVars >>

\* Lines 98-135: ensureSSHKey generates the pair when the private key file
\* is absent; each of its steps can fail.
ensureSSHKey ==
  /\ pc = "st_key"
  /\ IF privKey # "none"
       THEN /\ pc' = "st_pub"
            /\ UNCHANGED << privKey, pubKey, startRet, tickerOn, result >>
       ELSE \E o \in GenerateOutcomes(privKey, pubKey) :
              /\ privKey' = o.priv
              /\ pubKey' = o.pub
              /\ IF o.ok
                   THEN /\ pc' = "st_pub"
                        /\ UNCHANGED << startRet, tickerOn, result >>
                   ELSE StartReturn("err_key")
  /\ UNCHANGED << authed, ctxDone, cancelPc, envState, envFields, interfered >>
  /\ UNCHANGED << nPosts, nGets, nFailed, obs, tickReady, sel, sshEnv >>
  /\ UNCHANGED << tokenVars, procVars, reqVars, cmdVars, relayVars, sshVars, deferVars, auxVars >>

\* Mutant of line 379: every trailing newline is removed.
TrimSuffix_all(f) == [f EXCEPT !.nl = 0]
\* Line 379: strings.TrimSuffix(string(pubKeyBytes), "\n") removes one
\* trailing newline when there is one.
TrimSuffix(f) == IF f.nl > 0 THEN [f EXCEPT !.nl = f.nl - 1] ELSE f

\* Mutant of lines 369-372: the error of os.ReadFile is ignored.
startReadKey_ignoreError ==
  /\ pc = "st_pub"
  /\ reqKeys' = << IF pubKey # NoPub THEN TrimSuffix(pubKey) ELSE "" >>
  /\ pc' = "st_post"
  /\ UNCHANGED << startRet, tickerOn, result >>
  /\ UNCHANGED << authed, ctxDone, cancelPc, envState, envFields, interfered >>
  /\ UNCHANGED << privKey, pubKey, nPosts, nGets, nFailed, obs, tickReady, sel, sshEnv >>
  /\ UNCHANGED << posted, infoEnv, out, nKeyReqs >>
  /\ UNCHANGED << tokenVars, procVars, reqVars, relayVars, sshVars, deferVars, auxVars >>

\* Lines 368-380: the managed public key is read and the request is built.
startReadKey ==
  /\ pc = "st_pub"
  /\ IF pubKey # NoPub
       THEN /\ reqKeys' = << TrimSuffix(pubKey) >>
            /\ pc' = "st_post"
            /\ UNCHANGED << startRet, tickerOn, result >>
       ELSE /\ StartReturn("err_public_key")
            /\ UNCHANGED reqKeys
  /\ UNCHANGED << authed, ctxDone, cancelPc, envState, envFields, interfered >>
  /\ UNCHANGED << privKey, pubKey, nPosts, nGets, nFailed, obs, tickReady, sel, sshEnv >>
  /\ UNCHANGED << posted, infoEnv, out, nKeyReqs >>
  /\ UNCHANGED << tokenVars, procVars, reqVars, relayVars, sshVars, deferVars, auxVars >>

\* Line 381: the ':start' POST is sent.
startPost ==
  /\ pc = "st_post"
  /\ nPosts' = nPosts + 1
  /\ posted' = Append(posted, reqKeys)
  /\ Sends("start")
  /\ pc' = "st_post_wait"
  /\ UNCHANGED << reqKeys, infoEnv, out, nKeyReqs >>
  /\ UNCHANGED << authed, result, ctxDone, cancelPc, envState, envFields, interfered >>
  /\ UNCHANGED << privKey, pubKey, nGets, nFailed, obs, tickReady, tickerOn, sel,
                  startRet, sshEnv >>
  /\ UNCHANGED << tokenVars, procVars, relayVars, sshVars, deferVars, auxVars >>

\* Lines 381-386: the POST's response; on success the ticker is created.
startPostDone ==
  /\ pc = "st_post_wait"
  /\ \E o \in RequestOutcomes :
       /\ Answers(o)
       /\ IF o = "ok"
         THEN /\ tickerOn' = TRUE
              /\ pc' = "st_get"
              /\ UNCHANGED << startRet, result, nFailed >>
         ELSE /\ nFailed' = nFailed + 1
              /\ StartReturn(o)
  /\ UNCHANGED << authed, ctxDone, cancelPc, envState, envFields, interfered >>
  /\ UNCHANGED << privKey, pubKey, nPosts, nGets, obs, tickReady, sel, sshEnv >>
  /\ UNCHANGED << tokenVars, procVars, cmdVars, relayVars, sshVars, deferVars, auxVars >>

\* Line 388: a poll's getEnvironment request is sent.
startGet ==
  /\ pc = "st_get"
  /\ nGets' = nGets + 1
  /\ Sends("get")
  /\ pc' = "st_get_wait"
  /\ UNCHANGED << authed, result, ctxDone, cancelPc, envState, envFields, interfered >>
  /\ UNCHANGED << privKey, pubKey, nPosts, nFailed, obs, tickReady, tickerOn, sel,
                  startRet, sshEnv >>
  /\ UNCHANGED << tokenVars, procVars, cmdVars, relayVars, sshVars, deferVars, auxVars >>

\* Mutant of lines 389-391: a failed poll is retried at the next tick.
startGetDone_retry ==
  /\ pc = "st_get_wait"
  /\ \E o \in RequestOutcomes :
       /\ Answers(o)
       /\ IF o = "ok"
         THEN /\ Len(obs) < MaxPolls \/ envState = "RUNNING"
              /\ obs' = Append(obs, envState)
              /\ IF IsRunning(EnvOf(envState, envFields))
                   THEN StartReturn("nil")
                   ELSE /\ pc' = "st_select"
                        /\ UNCHANGED << startRet, tickerOn, result >>
              /\ UNCHANGED nFailed
         ELSE /\ nFailed' = nFailed + 1
              /\ pc' = "st_select"
              /\ UNCHANGED << obs, startRet, tickerOn, result >>
  /\ UNCHANGED << authed, ctxDone, cancelPc, envState, envFields, interfered >>
  /\ UNCHANGED << privKey, pubKey, nPosts, nGets, tickReady, sel, sshEnv >>
  /\ UNCHANGED << tokenVars, procVars, cmdVars, relayVars, sshVars, deferVars, auxVars >>

\* Mutant of lines 392-395: a DELETING observation ends start with an error.
startGetDone_deleting ==
  /\ pc = "st_get_wait"
  /\ \E o \in RequestOutcomes :
       /\ Answers(o)
       /\ IF o = "ok"
         THEN /\ Len(obs) < MaxPolls \/ envState = "RUNNING"
              /\ obs' = Append(obs, envState)
              /\ IF IsRunning(EnvOf(envState, envFields))
                   THEN StartReturn("nil")
                   ELSE IF envState = "DELETING"
                          THEN StartReturn("err_deleting")
                          ELSE /\ pc' = "st_select"
                               /\ UNCHANGED << startRet, tickerOn, result >>
              /\ UNCHANGED nFailed
         ELSE /\ nFailed' = nFailed + 1
              /\ StartReturn(o)
              /\ UNCHANGED obs
  /\ UNCHANGED << authed, ctxDone, cancelPc, envState, envFields, interfered >>
  /\ UNCHANGED << privKey, pubKey, nPosts, nGets, tickReady, sel, sshEnv >>
  /\ UNCHANGED << tokenVars, procVars, cmdVars, relayVars, sshVars, deferVars, auxVars >>

\* Lines 388-395: the poll's response: an error ends start, RUNNING ends it
\* with nil, any other state goes to the select.
startGetDone ==
  /\ pc = "st_get_wait"
  /\ \E o \in RequestOutcomes :
       /\ Answers(o)
       /\ IF o = "ok"
         THEN /\ Len(obs) < MaxPolls \/ envState = "RUNNING"
              /\ obs' = Append(obs, envState)
              /\ IF IsRunning(EnvOf(envState, envFields))
                   THEN StartReturn("nil")
                   ELSE /\ pc' = "st_select"
                        /\ UNCHANGED << startRet, tickerOn, result >>
              /\ UNCHANGED nFailed
         ELSE /\ nFailed' = nFailed + 1
              /\ StartReturn(o)
              /\ UNCHANGED obs
  /\ UNCHANGED << authed, ctxDone, cancelPc, envState, envFields, interfered >>
  /\ UNCHANGED << privKey, pubKey, nPosts, nGets, tickReady, sel, sshEnv >>
  /\ UNCHANGED << tokenVars, procVars, cmdVars, relayVars, sshVars, deferVars, auxVars >>

\* Line 396: the select takes a ready case (any of them when both are
\* ready); with none ready the goroutine parks on both channels.
startSelect ==
  /\ pc = "st_select"
  /\ \/ /\ tickReady
        /\ tickReady' = FALSE
        /\ sel' = "tick"
        /\ pc' = "st_chosen"
     \/ /\ ctxDone
        /\ sel' = "done"
        /\ pc' = "st_chosen"
        /\ UNCHANGED tickReady
     \/ /\ ~tickReady
        /\ ~ctxDone
        /\ pc' = "st_parked"
        /\ UNCHANGED << tickReady, sel >>
  /\ UNCHANGED << authed, result, ctxDone, cancelPc, envState, envFields, interfered >>
  /\ UNCHANGED << privKey, pubKey, nPosts, nGets, nFailed, obs, tickerOn, startRet, sshEnv >>
  /\ UNCHANGED << tokenVars, procVars, reqVars, cmdVars, relayVars, sshVars, deferVars, auxVars >>

\* Mutant of lines 397-398: the loop restarts at the ':start' POST.
startContinue_rePost ==
  /\ pc = "st_chosen"
  /\ sel = "tick"
  /\ sel' = "none"
  /\ pc' = "st_post"
  /\ UNCHANGED << authed, result, ctxDone, cancelPc, envState, envFields, interfered >>
  /\ UNCHANGED << privKey, pubKey, nPosts, nGets, nFailed, obs, tickReady,
                  tickerOn, startRet, sshEnv >>
  /\ UNCHANGED << tokenVars, procVars, reqVars, cmdVars, relayVars, sshVars, deferVars, auxVars >>

\* Lines 397-398: the tick case continues the loop.
startContinue ==
  /\ pc = "st_chosen"
  /\ sel = "tick"
  /\ sel' = "none"
  /\ pc' = "st_get"
  /\ UNCHANGED << authed, result, ctxDone, cancelPc, envState, envFields, interfered >>
  /\ UNCHANGED << privKey, pubKey, nPosts, nGets, nFailed, obs, tickReady, tickerOn,
                  startRet, sshEnv >>
  /\ UNCHANGED << tokenVars, procVars, reqVars, cmdVars, relayVars, sshVars, deferVars, auxVars >>

\* Lines 399-400: the ctx.Done() case returns.
startCanceled ==
  /\ pc = "st_chosen"
  /\ sel = "done"
  /\ sel' = "none"
  /\ StartReturn(CanceledStartResult)
  /\ UNCHANGED << authed, ctxDone, cancelPc, envState, envFields, interfered >>
  /\ UNCHANGED << privKey, pubKey, nPosts, nGets, nFailed, obs, tickReady, sshEnv >>
  /\ UNCHANGED << tokenVars, procVars, reqVars, cmdVars, relayVars, sshVars, deferVars, auxVars >>

\* Line 353: ssh fetches the environment afresh.
sshGet ==
  /\ pc = "ssh_get"
  /\ Sends("get")
  /\ pc' = "ssh_get_wait"
  /\ UNCHANGED << authed, result, ctxDone, cancelPc, envState, envFields, interfered >>
  /\ UNCHANGED << tokenVars, startVars, procVars, cmdVars, relayVars, sshVars, deferVars, auxVars >>

\* The connection fields a RUNNING environment normally carries, as the
\* last poll of start would have seen them.
FieldsOfCached == IF obs[Len(obs)] = "RUNNING" THEN ConnFields ELSE {}
\* Mutant of lines 353-357: sshExec is given the environment start's last
\* poll returned.
sshGetDone_cached ==
  /\ pc = "ssh_get_wait"
  /\ \E o \in RequestOutcomes :
       /\ Answers(o)
       /\ IF o = "ok"
         THEN /\ sshEnv' = EnvOf(obs[Len(obs)], FieldsOfCached)
              /\ pc' = "ssh_exec"
              /\ UNCHANGED result
         ELSE /\ Exit(o)
              /\ UNCHANGED sshEnv
  /\ UNCHANGED << authed, ctxDone, cancelPc, envState, envFields, interfered >>
  /\ UNCHANGED << privKey, pubKey, nPosts, nGets, nFailed, obs, tickReady, tickerOn,
                  sel, startRet >>
  /\ UNCHANGED << tokenVars, procVars, cmdVars, relayVars, sshVars, deferVars, auxVars >>

\* Lines 353-357: the response; on success the value goes to sshExec.
sshGetDone ==
  /\ pc = "ssh_get_wait"
  /\ \E o \in RequestOutcomes :
       /\ Answers(o)
       /\ IF o = "ok"
         THEN /\ sshEnv' = EnvOf(envState, envFields)
              /\ pc' = "ssh_exec"
              /\ UNCHANGED result
         ELSE /\ Exit(o)
              /\ UNCHANGED sshEnv
  /\ UNCHANGED << authed, ctxDone, cancelPc, envState, envFields, interfered >>
  /\ UNCHANGED << privKey, pubKey, nPosts, nGets, nFailed, obs, tickReady, tickerOn,
                  sel, startRet >>
  /\ UNCHANGED << tokenVars, procVars, cmdVars, relayVars, sshVars, deferVars, auxVars >>

\* ------------------------------------------------------------ sshExec
\* What no step of sshExec changes.
sshFrame == << authed, ctxDone, cancelPc, envState, envFields, interfered,
               termMode0, isTerm >>

\* A sequence back to front.
Reverse(q) == [i \in 1..Len(q) |-> q[Len(q) + 1 - i]]
\* Whether sshExec has deferred the call f.
Deferred(f) == \E i \in DOMAIN deferred : deferred[i] = f

\* Mutant of line 461: term.Restore is not deferred.
SshReturn_noRestore(r) ==
  /\ ran' = SelectSeq(Reverse(deferred), LAMBDA f : f # "term.Restore")
  /\ deferred' = << >>
  /\ termMode' = termMode
  /\ session' = IF Deferred("session.Close") THEN "closed" ELSE session
  /\ client' = IF Deferred("client.Close") THEN "closed" ELSE client
  /\ Exit(r)

\* Mutant of lines 438-461: the deferred calls run in the order of the
\* defers.
SshReturn_inOrder(r) ==
  /\ ran' = deferred
  /\ deferred' = << >>
  /\ termMode' = IF Deferred("term.Restore") THEN oldState ELSE termMode
  /\ session' = IF Deferred("session.Close") THEN "closed" ELSE session
  /\ client' = IF Deferred("client.Close") THEN "closed" ELSE client
  /\ Exit(r)

\* sshExec returns r: the deferred calls run last registered first
\* (term.Restore of the saved mode, session.Close, client.Close: lines 461,
\* 444, 438), ssh and Run return r.
SshReturn(r) ==
  /\ ran' = Reverse(deferred)
  /\ deferred' = << >>
  /\ termMode' = IF Deferred("term.Restore") THEN oldState ELSE termMode
  /\ session' = IF Deferred("session.Close") THEN "closed" ELSE session
  /\ client' = IF Deferred("client.Close") THEN "closed" ELSE client
  /\ Exit(r)

\* Lines 409-411: sshExec refuses an environment without connection fields.
sshExec ==
  /\ pc = "ssh_exec"
  /\ IF Unavailable(sshEnv)
       THEN Exit("err_unavailable")
       ELSE /\ pc' = "sx_key"
            /\ UNCHANGED result
  /\ UNCHANGED << sshFrame, sshVars, deferVars >>
  /\ UNCHANGED << tokenVars, startVars, procVars, reqVars, cmdVars, relayVars, auxVars >>

\* Lines 414-421: the private key is read and parsed.
sshExecKey ==
  /\ pc = "sx_key"
  /\ keyRead' = TRUE
  /\ \E o \in (IF privKey \in {"k0", "k1"}
                THEN {"ok", "err_key_read", "err_key_parse"}
                ELSE {"err_key_read", "err_key_parse"}) :
       IF o = "ok" THEN /\ pc' = "sx_dial"
                        /\ UNCHANGED result
                   ELSE Exit(o)
  /\ UNCHANGED << sshFrame, nDials, client, session, termMode, ptyReq, shellReq,
                  oldState, dims, remote, deferVars >>
  /\ UNCHANGED << tokenVars, startVars, procVars, reqVars, cmdVars, relayVars, auxVars >>

\* Lines 433-438: ssh.Dial; client.Close is deferred.
sshExecDial ==
  /\ pc = "sx_dial"
  /\ nDials' = nDials + 1
  /\ \E ok \in BOOLEAN :
       IF ok THEN /\ client' = "open"
                  /\ deferred' = Append(deferred, "client.Close")
                  /\ pc' = "sx_session"
                  /\ UNCHANGED << result, ran >>
             ELSE /\ Exit("err_dial")
                  /\ UNCHANGED << client, deferVars >>
  /\ UNCHANGED << sshFrame, keyRead, session, termMode, ptyReq, shellReq,
                  oldState, dims, remote >>
  /\ UNCHANGED << tokenVars, startVars, procVars, reqVars, cmdVars, relayVars, auxVars >>

\* Lines 440-444: client.NewSession; session.Close is deferred.
sshExecSession ==
  /\ pc = "sx_session"
  /\ \E ok \in BOOLEAN :
       IF ok THEN /\ session' = "open"
                  /\ pc' = "sx_term"
                  /\ deferred' = Append(deferred, "session.Close")
                  /\ UNCHANGED << result, client, termMode, ran >>
             ELSE SshReturn("err_session")
  /\ UNCHANGED << sshFrame, keyRead, nDials, ptyReq, shellReq, oldState, dims,
                  remote >>
  /\ UNCHANGED << tokenVars, startVars, procVars, reqVars, cmdVars, relayVars, auxVars >>

\* Mutant of lines 450-452: standard input is not tested.
sshExecTerminal_noCheck ==
  /\ pc = "sx_term"
  /\ pc' = "sx_raw"
  /\ UNCHANGED << result, client, session, termMode, deferVars >>
  /\ UNCHANGED << sshFrame, keyRead, nDials, ptyReq, shellReq, oldState, dims,
                  remote >>
  /\ UNCHANGED << tokenVars, startVars, procVars, reqVars, cmdVars, relayVars, auxVars >>

\* Lines 448-452: standard input must be a terminal.
sshExecTerminal ==
  /\ pc = "sx_term"
  /\ IF isTerm THEN /\ pc' = "sx_raw"
                    /\ UNCHANGED << result, client, session, termMode, deferVars >>
               ELSE SshReturn("err_notty")
  /\ UNCHANGED << sshFrame, keyRead, nDials, ptyReq, shellReq, oldState, dims,
                  remote >>
  /\ UNCHANGED << tokenVars, startVars, procVars, reqVars, cmdVars, relayVars, auxVars >>

\* Lines 456-461: term.MakeRaw saves the mode and switches to raw mode;
\* term.Restore of the saved mode is deferred.
sshExecRaw ==
  /\ pc = "sx_raw"
  /\ \E ok \in BOOLEAN :
       IF ok THEN /\ oldState' = termMode
                  /\ termMode' = "raw"
                  /\ pc' = "sx_size"
                  /\ deferred' = Append(deferred, "term.Restore")
                  /\ UNCHANGED << result, client, session, ran >>
             ELSE /\ SshReturn("err_raw")
                  /\ UNCHANGED oldState
  /\ UNCHANGED << sshFrame, keyRead, nDials, ptyReq, shellReq, dims, remote >>
  /\ UNCHANGED << tokenVars, startVars, procVars, reqVars, cmdVars, relayVars, auxVars >>

\* Lines 464-467: term.GetSize.
sshExecSize ==
  /\ pc = "sx_size"
  /\ \E ok \in BOOLEAN :
       IF ok THEN /\ dims' = termSize
                  /\ pc' = "sx_pty"
                  /\ UNCHANGED << result, client, session, termMode, deferVars >>
             ELSE /\ SshReturn("err_size")
                  /\ UNCHANGED dims
  /\ UNCHANGED << sshFrame, keyRead, nDials, ptyReq, shellReq, oldState, remote >>
  /\ UNCHANGED << tokenVars, startVars, procVars, reqVars, cmdVars, relayVars, auxVars >>

\* The rows and columns session.RequestPty(term, h, w, modes) and
\* session.WindowChange(h, w) put on the wire for a size read as (w, h).
WireDims(sz) == [rows |-> sz.h, cols |-> sz.w]

\* Lines 471-473: session.RequestPty with the size read.
sshExecPty ==
  /\ pc = "sx_pty"
  /\ ptyReq' = TRUE
  /\ \E ok \in BOOLEAN :
       IF ok THEN /\ sentDims' = WireDims(dims)
                  /\ pc' = "sx_notify"
                  /\ UNCHANGED << result, client, session, termMode, deferVars >>
             ELSE /\ SshReturn("err_pty")
                  /\ UNCHANGED sentDims
  /\ UNCHANGED << sshFrame, keyRead, nDials, shellReq, oldState, dims, remote >>
  /\ UNCHANGED << termSize, notifyOn, winch, relay, relaySize, nResize, nTaken,
                  nHandled, nLate, relayErr >>
  /\ UNCHANGED << tokenVars, startVars, procVars, reqVars, cmdVars, auxVars >>

\* Lines 477-488: SIGWINCH is routed to winch and the resize goroutine is
\* started.
sshExecNotify ==
  /\ pc = "sx_notify"
  /\ notifyOn' = TRUE
  /\ relay' = "waiting"
  /\ pc' = "sx_shell"
  /\ UNCHANGED << sshFrame, sshVars, deferVars, result >>
  /\ UNCHANGED << termSize, winch, relaySize, sentDims, nResize, nTaken,
                  nHandled, nLate, relayErr >>
  /\ UNCHANGED << tokenVars, startVars, procVars, reqVars, cmdVars, auxVars >>

\* Lines 491-497: the streams are connected and session.Shell is called.
sshExecShell ==
  /\ pc = "sx_shell"
  /\ shellReq' = TRUE
  /\ \E ok \in BOOLEAN :
       IF ok THEN /\ pc' = "sx_wait"
                  /\ UNCHANGED << result, client, session, termMode, deferVars >>
             ELSE SshReturn("err_shell")
  /\ UNCHANGED << sshFrame, keyRead, nDials, ptyReq, oldState, dims, remote >>
  /\ UNCHANGED << tokenVars, startVars, procVars, reqVars, cmdVars, relayVars, auxVars >>

\* The remote side ends the session: the shell exits with status 0 or
\* another status, or the connection is lost.
RemoteEnds ==
  /\ pc = "sx_wait"
  /\ remote = "none"
  /\ remote' \in {"zero", "nonzero", "lost"}
  /\ UNCHANGED << sshFrame, pc, result, keyRead, nDials, client, session,
                  termMode, ptyReq, shellReq, oldState, dims, deferVars >>
  /\ UNCHANGED << tokenVars, startVars, procVars, reqVars, cmdVars, relayVars, auxVars >>

\* Mutant of line 501: a non-zero exit status is not reported.
WaitResult_nil(rem) == IF rem = "lost" THEN "err_lost" ELSE "nil"
\* Line 501: what session.Wait returns: nil for exit status 0, the exit
\* error for another status, the missing-status error for a lost connection.
WaitResult(rem) ==
  IF rem = "zero" THEN "nil" ELSE IF rem = "nonzero" THEN "err_exit" ELSE "err_lost"

\* Mutant of line 501: the wait also ends when the context is canceled.
sshExecWait_cancelable ==
  /\ pc = "sx_wait"
  /\ \/ /\ remote # "none"
        /\ SshReturn(WaitResult(remote))
     \/ /\ ctxDone
        /\ SshReturn("err_canceled")
  /\ UNCHANGED << sshFrame, keyRead, nDials, ptyReq, shellReq, oldState, dims,
                  remote >>
  /\ UNCHANGED << tokenVars, startVars, procVars, reqVars, cmdVars, relayVars, auxVars >>

\* Line 501: session.Wait returns once the remote side has ended the session.
sshExecWait ==
  /\ pc = "sx_wait"
  /\ remote # "none"
  /\ SshReturn(WaitResult(remote))
  /\ UNCHANGED << sshFrame, keyRead, nDials, ptyReq, shellReq, oldState, dims,
                  remote >>
  /\ UNCHANGED << tokenVars, startVars, procVars, reqVars, cmdVars, relayVars, auxVars >>

\* ------------------------------------------------------------ resize relay
\* What no step of the resize goroutine or of the terminal changes.
relayFrame == << pc, result, authed, ctxDone, cancelPc, envState, envFields,
                 interfered >>

\* The user resizes the local terminal: SIGWINCH is sent to winch when it
\* is registered and has room (signal delivery never blocks).
Resize ==
  /\ \/ pc \in {"sx_size", "sx_pty", "sx_notify", "sx_shell", "sx_wait"}
     \/ pc = "exit" /\ relay # "none"
  /\ nResize < MaxResizes
  /\ nResize' = nResize + 1
  /\ termSize' \in Sizes \ {termSize}
  /\ winch' = (winch \/ notifyOn)
  /\ UNCHANGED << relayFrame, notifyOn, relay, relaySize, sentDims, nTaken,
                  nHandled, nLate, relayErr >>
  /\ UNCHANGED << tokenVars, startVars, procVars, reqVars, cmdVars, sshVars, deferVars, auxVars >>

\* Line 480: the goroutine takes a signal from winch.
relayTake ==
  /\ relay = "waiting"
  /\ winch
  /\ winch' = FALSE
  /\ relay' = "query"
  /\ nTaken' = nTaken + 1
  /\ UNCHANGED << relayFrame, termSize, notifyOn, relaySize, sentDims, nResize,
                  nHandled, nLate, relayErr >>
  /\ UNCHANGED << tokenVars, startVars, procVars, reqVars, cmdVars, sshVars, deferVars, auxVars >>

\* Mutant of lines 481-484: a failed size query ends the goroutine.
relayQuery_stopOnError ==
  /\ relay = "query"
  /\ \E ok \in BOOLEAN :
       IF ok THEN /\ relaySize' = termSize
                  /\ relay' = "send"
                  /\ UNCHANGED << nHandled, relayErr >>
             ELSE /\ relay' = "stopped"
                  /\ nHandled' = nHandled + 1
                  /\ relayErr' = TRUE
                  /\ UNCHANGED relaySize
  /\ UNCHANGED << relayFrame, termSize, notifyOn, winch, sentDims, nResize,
                  nTaken, nLate >>
  /\ UNCHANGED << tokenVars, startVars, procVars, reqVars, cmdVars, sshVars, deferVars, auxVars >>

\* Lines 481-484: term.GetSize; on an error the signal is skipped.
relayQuery ==
  /\ relay = "query"
  /\ \E ok \in BOOLEAN :
       IF ok THEN /\ relaySize' = termSize
                  /\ relay' = "send"
                  /\ UNCHANGED << nHandled, relayErr >>
             ELSE /\ relay' = "waiting"
                  /\ nHandled' = nHandled + 1
                  /\ relayErr' = TRUE
                  /\ UNCHANGED relaySize
  /\ UNCHANGED << relayFrame, termSize, notifyOn, winch, sentDims, nResize,
                  nTaken, nLate >>
  /\ UNCHANGED << tokenVars, startVars, procVars, reqVars, cmdVars, sshVars, deferVars, auxVars >>

\* Line 486: session.WindowChange(h, w); its error is dropped.  On a
\* closed session the call fails and nothing reaches the remote side.
relaySend ==
  /\ relay = "send"
  /\ relay' = "waiting"
  /\ nHandled' = nHandled + 1
  /\ IF session = "open"
       THEN /\ \E ok \in BOOLEAN :
                 /\ sentDims' = IF ok THEN WireDims(relaySize) ELSE sentDims
                 /\ relayErr' = (relayErr \/ ~ok)
            /\ UNCHANGED nLate
       ELSE /\ nLate' = nLate + 1
            /\ relayErr' = TRUE
            /\ UNCHANGED sentDims
  /\ UNCHANGED << relayFrame, termSize, notifyOn, winch, relaySize, nResize,
                  nTaken >>
  /\ UNCHANGED << tokenVars, startVars, procVars, reqVars, cmdVars, sshVars, deferVars, auxVars >>

\* ------------------------------------------------------------ environment
\* The governing context is canceled (interrupt signal).  A goroutine parked
\* in a select on ctx.Done() is woken with that case.
Polling == {"st_get", "st_get_wait", "st_select", "st_parked", "st_chosen"}

Cancel ==
  /\ ~ctxDone
  /\ pc # "exit"
  /\ ctxDone' = TRUE
  /\ cancelPc' = pc
  /\ IF pc = "st_parked"
       THEN /\ sel' = "done"
            /\ pc' = "st_chosen"
            /\ UNCHANGED gsel
       ELSE IF pc = "gt_parked"
              THEN /\ gsel' = "done"
                   /\ pc' = "gt_chosen"
                   /\ UNCHANGED sel
              ELSE UNCHANGED << pc, sel, gsel >>
  /\ shut' = IF shut = "parked" THEN "done" ELSE shut
  /\ UNCHANGED << authed, result, envState, envFields, interfered >>
  /\ UNCHANGED << tokenFile, listener, serve, hpc, hcode, hstate, codeQ, shutQ,
                  authCode, tok, tokRet, urlShown, nExchange, nWrites >>
  /\ UNCHANGED << privKey, pubKey, nPosts, nGets, nFailed, obs, tickReady, tickerOn,
                  startRet, sshEnv >>
  /\ UNCHANGED << procVars, reqVars, cmdVars, relayVars, sshVars, deferVars, auxVars >>

\* Five seconds pass: the ticker sends on its one-slot channel; a parked
\* start receives the tick at once, a tick on a full channel is dropped.
Tick ==
  /\ tickerOn
  /\ ~tickReady
  /\ IF pc = "st_parked"
       THEN /\ sel' = "tick"
            /\ pc' = "st_chosen"
            /\ UNCHANGED tickReady
       ELSE /\ tickReady' = TRUE
            /\ UNCHANGED << pc, sel >>
  /\ UNCHANGED << authed, result, ctxDone, cancelPc, envState, envFields, interfered >>
  /\ UNCHANGED << privKey, pubKey, nPosts, nGets, nFailed, obs, tickerOn, startRet, sshEnv >>
  /\ UNCHANGED << tokenVars, procVars, reqVars, cmdVars, relayVars, sshVars, deferVars, auxVars >>

\* The provider's environment changes state on its own.  Before the first
\* request of the process the change is not observable, so it is folded into
\* the initial state.
Provider ==
  /\ pc \in Polling \cup {"st_post_wait", "ssh_get", "ssh_get_wait"}
  /\ \E s \in EnvStates \ {envState} :
       /\ envState' = s
       /\ envFields' \in FieldsIn(s)
       /\ interfered' = (interfered \/ startRet # "none")
  /\ UNCHANGED << pc, authed, result, ctxDone, cancelPc >>
  /\ UNCHANGED << tokenVars, startVars, procVars, reqVars, cmdVars, relayVars, sshVars, deferVars, auxVars >>

\* ------------------------------------------------------------ info
\* The letters the state names are written with, in both cases.
UpperLetters ==
  << "A", "B", "D", "E", "G", "I", "K", "L", "N", "O", "R", "S", "T", "U", "W" >>
LowerLetters ==
  << "a", "b", "d", "e", "g", "i", "k", "l", "n", "o", "r", "s", "t", "u", "w" >>
\* unicode.ToUpper and unicode.ToLower of one rune.
ToUpperRune(c) ==
  IF \E i \in DOMAIN LowerLetters : LowerLetters[i] = c
    THEN UpperLetters[CHOOSE i \in DOMAIN LowerLetters : LowerLetters[i] = c]
    ELSE c
ToLowerRune(c) ==
  IF \E i \in DOMAIN UpperLetters : UpperLetters[i] = c
    THEN LowerLetters[CHOOSE i \in DOMAIN UpperLetters : UpperLetters[i] = c]
    ELSE c
\* The runes of environment.State.
StateChars(s) ==
  CASE s = "DISABLED" -> << "D", "I", "S", "A", "B", "L", "E", "D" >>
    [] s = "STARTING" -> << "S", "T", "A", "R", "T", "I", "N", "G" >>
    [] s = "RUNNING"  -> << "R", "U", "N", "N", "I", "N", "G" >>
    [] s = "DELETING" -> << "D", "E", "L", "E", "T", "I", "N", "G" >>
    [] s = "UNKNOWN"  -> << "U", "N", "K", "N", "O", "W", "N" >>
    [] OTHER          -> << >>
\* Line 315: strings.ToLower.
ToLower(t) == [i \in DOMAIN t |-> ToLowerRune(t[i])]
\* Mutant of lines 337-344: the string is returned as it came.
uppercaseFirst_same(t) == t
\* Lines 337-344: uppercaseFirst.
uppercaseFirst(t) ==
  IF Len(t) = 0 THEN t ELSE [t EXCEPT ![1] = ToUpperRune(t[1])]

\* One logged line: what it is, its runes where the model spells them, and
\* the connection fields whose values it prints.
Line(k, t, h) == [kind |-> k, text |-> t, has |-> h]
\* Lines 315-332: what info logs for environment e; web tells whether the
\* response carried a web host.
InfoLines(e, web) ==
  << Line("state", uppercaseFirst(ToLower(StateChars(e.state))) \o << "." >>, {}),
     Line("docker_image", << >>, {}) >>
  \o (IF web THEN << Line("web_host", << >>, {}) >> ELSE << >>)
  \o (IF e.fields = ConnFields
        THEN << Line("ssh_details", << >>, {}),
                Line("host", << >>, {"host"}),
                Line("port", << >>, {"port"}),
                Line("username", << >>, {"user"}) >>
        ELSE << Line("ssh_unavailable", << >>, {}) >>)

\* What the info and key actions leave alone.
cmdFrame == << authed, ctxDone, cancelPc, envState, envFields, interfered >>

\* Line 310: info sends its get().
infoGet ==
  /\ pc = "info_get"
  /\ Sends("get")
  /\ pc' = "info_get_wait"
  /\ UNCHANGED << result, cmdFrame >>
  /\ UNCHANGED << tokenVars, startVars, procVars, cmdVars, relayVars, sshVars, deferVars, auxVars >>

\* Lines 310-334: the response arrives and info logs what it describes.
infoGetDone ==
  /\ pc = "info_get_wait"
  /\ \E o \in RequestOutcomes :
       /\ Answers(o)
       /\ IF o = "ok"
         THEN /\ infoEnv' = EnvOf(envState, envFields)
              /\ \E web \in BOOLEAN : out' = InfoLines(infoEnv', web)
              /\ Exit("nil")
         ELSE /\ Exit(o)
              /\ UNCHANGED << infoEnv, out >>
  /\ UNCHANGED << reqKeys, posted, nKeyReqs, cmdFrame >>
  /\ UNCHANGED << tokenVars, startVars, procVars, relayVars, sshVars, deferVars, auxVars >>

\* ------------------------------------------------------------ key commands
\* The operation a key command asks of the provider (lines 510, 529, 545).
KeyOp(c) ==
  IF c = "key_list" THEN "get"
  ELSE IF c = "key_add" THEN "addPublicKey" ELSE "removePublicKey"
\* A key command sends its one request.
KeySend(c, at) ==
  /\ pc = "key_req"
  /\ cmd = c
  /\ Sends(KeyOp(c))
  /\ nKeyReqs' = nKeyReqs + 1
  /\ pc' = at
  /\ UNCHANGED << result, reqKeys, posted, infoEnv, out, cmdFrame >>
  /\ UNCHANGED << tokenVars, startVars, procVars, relayVars, sshVars, deferVars, auxVars >>
\* Mutant of lines 529-535 and 545-551: a failed request is sent once more.
KeyDone_retry(at) ==
  /\ pc = at
  /\ \E o \in RequestOutcomes :
       /\ Answers(o)
       /\ IF o # "ok" /\ Len(sent) < 2
            THEN /\ pc' = "key_req"
                 /\ UNCHANGED result
            ELSE Exit(IF o = "ok" THEN "nil" ELSE o)
  /\ UNCHANGED cmdFrame
  /\ UNCHANGED << tokenVars, startVars, procVars, cmdVars, relayVars, sshVars, deferVars, auxVars >>
\* The request of a key command ends and the command returns.
KeyDone(at) ==
  /\ pc = at
  /\ \E o \in RequestOutcomes :
       /\ Answers(o)
       /\ Exit(IF o = "ok" THEN "nil" ELSE o)
  /\ UNCHANGED cmdFrame
  /\ UNCHANGED << tokenVars, startVars, procVars, cmdVars, relayVars, sshVars, deferVars, auxVars >>

\* Lines 510-521: keyList.
keyList == KeySend("key_list", "key_list_wait")
keyListDone == KeyDone("key_list_wait")
\* Lines 529-537: keyAdd.
keyAdd == KeySend("key_add", "key_add_wait")
keyAddDone == KeyDone("key_add_wait")
\* Lines 545-553: keyRemove.
keyRemove == KeySend("key_remove", "key_remove_wait")
keyRemoveDone == KeyDone("key_remove_wait")

\* The program is invoked again once the earlier invocation has returned or
\* is past its last access to the key files: a new process starts from the
\* state of Init, with the files, the terminal and the provider's
\* environment as they were left.
Invoke ==
  /\ pc \in {"exit", "st_post"}
  /\ nInvoke < MaxInvocations
  /\ nInvoke' = nInvoke + 1
  /\ cmd' \in {"start", "ssh"}
  /\ args' = << cmd' >>
  /\ tokenFile0' = tokenFile
  /\ termMode0' = termMode
  /\ pc' = "run"
  /\ authed' = FALSE
  /\ result' = "pending"
  /\ ctxDone' = FALSE
  /\ cancelPc' = "none"
  /\ listener' = "none"
  /\ serve' = "none"
  /\ shut' = "none"
  /\ hpc' = [h \in Handlers |-> "none"]
  /\ hcode' = [h \in Handlers |-> ""]
  /\ hstate' = [h \in Handlers |-> ""]
  /\ codeQ' = << >>
  /\ shutQ' = << >>
  /\ gsel' = "none"
  /\ authCode' = ""
  /\ tok' = NoTok
  /\ tokRet' = "none"
  /\ urlShown' = FALSE
  /\ nExchange' = 0
  /\ nWrites' = 0
  /\ nGetToken' = 0
  /\ nListen' = 0
  /\ otherRead' = [kind |-> "none", access |-> ""]
  /\ touched' = {}
  /\ reqKeys' = << >>
  /\ posted' = << >>
  /\ infoEnv' = NoEnv
  /\ out' = << >>
  /\ nKeyReqs' = 0
  /\ sent' = << >>
  /\ resps' = << >>
  /\ keyRead' = FALSE
  /\ nDials' = 0
  /\ client' = "none"
  /\ session' = "none"
  /\ ptyReq' = FALSE
  /\ shellReq' = FALSE
  /\ oldState' = "none"
  /\ dims' = NoSize
  /\ remote' = "none"
  /\ notifyOn' = FALSE
  /\ winch' = FALSE
  /\ relay' = "none"
  /\ relaySize' = NoSize
  /\ sentDims' = NoDims
  /\ nResize' = 0
  /\ nTaken' = 0
  /\ nHandled' = 0
  /\ nLate' = 0
  /\ relayErr' = FALSE
  /\ deferred' = << >>
  /\ ran' = << >>
  /\ interfered' = FALSE
  /\ nPosts' = 0
  /\ nGets' = 0
  /\ nFailed' = 0
  /\ obs' = << >>
  /\ tickReady' = FALSE
  /\ tickerOn' = FALSE
  /\ sel' = "none"
  /\ startRet' = "none"
  /\ sshEnv' = NoEnv
  /\ UNCHANGED << secret, tokenFile, privKey, pubKey, envState, envFields,
                  termMode, isTerm, termSize >>

\* The info and key commands after initClient.
CmdNext ==
  \/ infoGet
  \/ infoGetDone
  \/ keyList
  \/ keyListDone
  \/ keyAdd
  \/ keyAddDone
  \/ keyRemove
  \/ keyRemoveDone

\* The foreground flow from start's key check on, and ssh after it.
StartNext ==
  \/ ensureSSHKey
  \/ startReadKey
  \/ startPost
  \/ startPostDone
  \/ startGet
  \/ startGetDone
  \/ startSelect
  \/ startContinue
  \/ startCanceled
  \/ sshGet
  \/ sshGetDone
  \/ sshExec
  \/ sshExecKey
  \/ sshExecDial
  \/ sshExecSession
  \/ sshExecTerminal
  \/ sshExecRaw
  \/ sshExecSize
  \/ sshExecPty
  \/ sshExecNotify
  \/ sshExecShell
  \/ RemoteEnds
  \/ sshExecWait
  \/ Tick
  \/ Provider

\* The local terminal and the resize goroutine of sshExec.
RelayNext ==
  \/ Resize
  \/ relayTake
  \/ relayQuery
  \/ relaySend

\* The authorization flow of getToken and its goroutines.
TokenSteps ==
  \/ getTokenListen
  \/ getTokenServe
  \/ getTokenSelect
  \/ getTokenExchange
  \/ getTokenWriteOpen
  \/ getTokenWriteDone
  \/ otherLoad
  \/ getTokenCanceled
  \/ \E h \in Handlers : callbackShutdown(h)
  \/ shutdownSelect
  \/ serverShutdown
  \/ serverServe

\* The authorization flow with the callback requests anybody can send to
\* the loopback port.
TokenNext ==
  \/ TokenSteps
  \/ \E h \in Handlers, c \in Codes, s \in CbStates : callbackHandler(h, c, s)

Next ==
  \/ Run
  \/ initClient
  \/ getTokenLoad
  \/ Cancel
  \/ TokenNext
  \/ StartNext
  \/ CmdNext
  \/ RelayNext
  \/ Invoke

\* One invocation of the client, whole.
Spec == Init /\ [][Next]_vars

\* Invocations that find a cached token: initClient returns without the
\* authorization flow and the command runs.
InitStart == Init /\ Parses(tokenFile) /\ termMode = "cooked" /\ isTerm
SpecStart ==
  InitStart
  /\ [][Run \/ initClient \/ getTokenLoad \/ Cancel \/ StartNext \/ CmdNext]_vars

\* The start command under the scheduling the runtime gives: the
\* foreground goroutine takes its next step when it has one, and the ticker
\* keeps ticking.
StartFlow ==
  \/ Run
  \/ initClient
  \/ getTokenLoad
  \/ ensureSSHKey
  \/ startReadKey
  \/ startPost
  \/ startPostDone
  \/ startGet
  \/ startGetDone
  \/ startSelect
  \/ startContinue
  \/ startCanceled
InitPoll == InitStart /\ cmd = "start"
SpecStartFair ==
  InitPoll
  /\ [][StartFlow \/ Cancel \/ Tick \/ Provider]_vars
  /\ WF_vars(StartFlow)
  /\ WF_vars(Tick)

\* Invocations of the ssh command that find a cached token, the managed
\* key pair and an environment that is running and stays so: start returns
\* after its first get(); with the local terminal and the resize goroutine.
InitSsh ==
  /\ Init
  /\ cmd = "ssh"
  /\ secret = "ok"
  /\ tokenFile = [kind |-> "json", access |-> "a0"]
  /\ privKey = "k0"
  /\ pubKey = [key |-> "k0", nl |-> 1]
  /\ envState = "RUNNING"
SshFlow ==
  \/ Run
  \/ initClient
  \/ getTokenLoad
  \/ ensureSSHKey
  \/ startReadKey
  \/ startPost
  \/ startPostDone
  \/ startGet
  \/ startGetDone
  \/ sshGet
  \/ sshGetDone
  \/ sshExec
  \/ sshExecKey
  \/ sshExecDial
  \/ sshExecSession
  \/ sshExecTerminal
  \/ sshExecRaw
  \/ sshExecSize
  \/ sshExecPty
  \/ sshExecNotify
  \/ sshExecShell
  \/ RemoteEnds
  \/ sshExecWait
SpecSsh == InitSsh /\ [][SshFlow \/ Cancel \/ RelayNext]_vars

\* Invocations up to the return of initClient, with the goroutines getToken
\* leaves behind; the environment and the key files play no part in them.
InitToken ==
  /\ Init
  /\ cmd \in {"start", "ssh"}
  /\ envState = "DISABLED"
  /\ privKey = "none"
  /\ termMode = "cooked"
  /\ isTerm
\* The callbacks carry the state value the authorization URL was built with.
Redirect == \E h \in Handlers, c \in Codes : callbackHandler(h, c, "state-token")
SpecToken ==
  InitToken
  /\ [][Run \/ initClient \/ getTokenLoad \/ Cancel \/ TokenSteps \/ Redirect]_vars

\* The start command without a token file, its callbacks carrying any state
\* value.
InitCallback ==
  /\ InitToken
  /\ cmd = "start"
  /\ secret = "ok"
  /\ tokenFile.kind = "absent"
SpecCallback ==
  InitCallback /\ [][Run \/ initClient \/ getTokenLoad \/ Cancel \/ TokenNext]_vars

\* Invocations of start and ssh, one after another on the same state
\* directory, each followed up to its ':start' request; the first finds a
\* cached token and no key files or a pair.
InitKeys ==
  /\ InitStart
  /\ cmd \in {"start", "ssh"}
  /\ secret = "ok"
  /\ envState = "DISABLED"
  /\ privKey = "none" \/ pubKey = [key |-> "k0", nl |-> 1]
SpecKeys ==
  InitKeys
  /\ [][Run \/ initClient \/ getTokenLoad \/ ensureSSHKey \/ startReadKey
          \/ Invoke]_vars

\* ================================================================ claims
\* Errors a request made by start can return.
RequestErrors == {"err_transport", "err_status", "err_canceled"}
\* The context was not canceled before start returned.
CancelFreeStart ==
  cancelPc \in {"none", "ssh_get", "ssh_get_wait", "ssh_exec", "sx_key",
                "sx_dial", "sx_session", "sx_term", "sx_raw", "sx_size",
                "sx_pty", "sx_notify", "sx_shell", "sx_wait"}
\* The last state start's polls observed ("" before the first poll).
LastObs == IF obs = << >> THEN "" ELSE obs[Len(obs)]
\* Every poll but the last one observed a state other than RUNNING.
NonRunningPrefix == \A i \in 1..(Len(obs) - 1) : obs[i] # "RUNNING"

\* C1: when the polls of start see N non-RUNNING states and then RUNNING,
\* with no request error and no cancellation, start returns nil after
\* exactly N+1 getEnvironment calls and exactly one ':start' POST, and the
\* POST is sent before the first get.
C1_PollsUntilRunning ==
  /\ nGets > 0 => nPosts = 1
  /\ (startRet = "nil" /\ CancelFreeStart) =>
       /\ nPosts = 1
       /\ nFailed = 0
       /\ LastObs = "RUNNING"
       /\ NonRunningPrefix
       /\ nGets = Len(obs)
C1_Witness ==
  /\ startRet = "nil"
  /\ cancelPc = "none"
  /\ obs = << "DISABLED", "STARTING", "RUNNING" >>
  /\ nGets = 3

\* C2 as stated: whenever start returns nil the environment has been
\* observed RUNNING, and the get ssh issues next, absent interference,
\* observes RUNNING with the connection fields populated.
C2_NilMeansRunning ==
  /\ startRet = "nil" => LastObs = "RUNNING"
  /\ (pc = "ssh_exec" /\ ~interfered) =>
       (sshEnv.state = "RUNNING" /\ sshEnv.fields = ConnFields)
\* C2 amended: when start returns nil and the context was not canceled
\* before it returned, the last poll observed RUNNING; a get of ssh that
\* succeeds with no provider change since start returned observes RUNNING
\* with the connection fields the provider has populated; when start
\* returned nil because of cancellation, ssh's get fails and sshExec is
\* never reached.
C2_NilUncanceledMeansRunning ==
  /\ (startRet = "nil" /\ CancelFreeStart) => LastObs = "RUNNING"
  /\ (pc = "ssh_exec" /\ ~interfered) =>
       (sshEnv.state = "RUNNING" /\ sshEnv.fields = envFields)
  /\ (startRet = "nil" /\ ~CancelFreeStart) =>
       /\ pc # "ssh_exec"
       /\ sshEnv = NoEnv
       /\ pc = "exit" => result = IF cmd = "ssh" THEN "err_canceled" ELSE "nil"
C2_Witness ==
  /\ pc = "ssh_exec"
  /\ ~interfered
  /\ cancelPc = "none"
  /\ Len(obs) = 2
  /\ sshEnv.fields = ConnFields

\* C3: a cancellation at any moment of start's polling phase (a get in
\* flight, a tick ready at the same time) makes start return nil.
C3_CancelWhilePollingReturnsNil ==
  (startRet # "none" /\ cancelPc \in Polling) => startRet = "nil"

\* C4: a cancellation that arrives while start is parked in its select
\* makes start return nil with no further ':start' POST and no further get.
C4_CancelBetweenTicks ==
  cancelPc = "st_parked" =>
    /\ nPosts = 1
    /\ nGets = Len(obs)
    /\ nFailed = 0
    /\ \/ pc = "st_chosen" /\ sel = "done" /\ startRet = "none"
       \/ startRet = "nil"
C4_Witness ==
  /\ cancelPc = "st_parked"
  /\ startRet = "nil"
  /\ Len(obs) = 2

\* C5: a poll that observes DELETING ends start with an error; no get
\* follows a DELETING observation.
C5_DeletingIsFatal ==
  /\ \A i \in 1..Len(obs) : obs[i] = "DELETING" => nGets = i
  /\ LastObs = "DELETING" =>
       /\ pc \notin {"st_select", "st_parked", "st_chosen", "st_get"}
       /\ startRet # "nil"

\* C6: a request of start that returns an error (the ':start' POST or any
\* poll) ends start with that error: it is the last request issued and it
\* is not retried.
C6_RequestErrorIsFatal ==
  /\ nFailed <= 1
  /\ nFailed = 1 =>
       /\ startRet \in RequestErrors
       /\ result = startRet
       /\ pc = "exit"
       /\ nPosts = 1
       /\ nGets \in {0, Len(obs) + 1}
  /\ startRet \in RequestErrors => nFailed = 1
C6_Witness ==
  /\ nFailed = 1
  /\ startRet = "err_transport"
  /\ Len(obs) = 1
  /\ nGets = 2

\* C7: when the provider reports RUNNING to every poll, start returns nil
\* after exactly one ':start' POST and exactly one get, never reaching the
\* select on the ticker, and reports no error for the running environment.
C7_AlreadyRunning ==
  (obs # << >> /\ \A i \in 1..Len(obs) : obs[i] = "RUNNING") =>
    /\ obs = << "RUNNING" >>
    /\ startRet = "nil"
    /\ nPosts = 1
    /\ nGets = 1
    /\ nFailed = 0
    /\ sel = "none"
    /\ pc \notin Polling
C7_Witness ==
  /\ obs = << "RUNNING" >>
  /\ startRet = "nil"
  /\ result = "nil"
  /\ ~ctxDone

\* How a start that sent its POST came to an end: RUNNING observed, a
\* request error, or cancellation during the polling phase.
StartEndReason ==
  \/ startRet = "nil" /\ LastObs = "RUNNING" /\ nFailed = 0
  \/ startRet \in RequestErrors /\ nFailed = 1
  \/ startRet = "nil" /\ LastObs # "RUNNING" /\ cancelPc \in Polling
C8_Safety ==
  /\ NonRunningPrefix
  /\ (startRet # "none" /\ nPosts > 0) => StartEndReason
  /\ (startRet = "none" /\ obs # << >>) => pc \in Polling

\* C8: the polling loop treats every state but RUNNING as non-terminal and
\* has no attempt bound: it ends only by observing RUNNING, by a request
\* error or by cancellation; and under fair scheduling, when no request
\* fails, the context is never canceled and the provider eventually
\* reports RUNNING for good, a start that is polling eventually returns nil.
C8_PollsUntilRunningOrStopped ==
  /\ []C8_Safety
  /\ (<>[](envState = "RUNNING") /\ [](~ctxDone) /\ [](nFailed = 0))
       => [](pc \in Polling => <>(startRet = "nil"))
C8_Witness ==
  /\ obs = << "DELETING", "UNKNOWN" >>
  /\ pc = "st_get_wait"
  /\ nGets = 3
  /\ nPosts = 1
  /\ startRet = "none"

\* C9: when token.json exists and unmarshals, getToken returns the stored
\* token as read, opens no listener, starts no goroutine, presents no
\* authorization URL, calls no token endpoint and writes no file.
C9_CachedTokenReturned ==
  tokenFile0.kind = "json" =>
    /\ tokRet \in {"none", "ok"}
    /\ tokRet = "ok" =>
         /\ tok = [kind |-> "tok", access |-> tokenFile0.access, raw |-> FALSE]
         /\ authed
    /\ listener = "none"
    /\ serve = "none"
    /\ shut = "none"
    /\ \A h \in Handlers : hpc[h] = "none"
    /\ ~urlShown
    /\ nExchange = 0
    /\ nWrites = 0
    /\ tokenFile = tokenFile0
    /\ pc \notin {"gt_listen", "gt_serve", "gt_select", "gt_parked", "gt_chosen",
                  "gt_write", "gt_writing"}
C9_Witness ==
  /\ tokenFile0 = [kind |-> "json", access |-> "a0"]
  /\ tokRet = "ok"
  /\ tok = [kind |-> "tok", access |-> "a0", raw |-> FALSE]

\* C10: whenever getToken has returned after opening the loopback
\* listener (token obtained, exchange or write error, cancellation), the
\* listener is closed.
C10_ListenerClosedOnReturn ==
  tokRet # "none" =>
    /\ listener # "open"
    /\ urlShown => listener = "closed"
C10_Witness ==
  /\ tokRet = "err_canceled"
  /\ listener = "closed"
  /\ shut \in {"select", "done"}
  /\ \E h \in Handlers : hpc[h] = "send_code"

\* C11: getToken does not return before its background goroutines (the
\* server, the shutdown waiter, the running handlers) have finished.
C11_BackgroundJoinedOnReturn ==
  tokRet # "none" =>
    /\ serve \in {"none", "done"}
    /\ shut \in {"none", "done"}
    /\ \A h \in Handlers : hpc[h] \in {"none", "bad_request", "done"}

\* C12: when the context is canceled while getToken is parked in its select
\* waiting for the code, getToken returns the cancellation error and no
\* token, without calling Exchange and without writing token.json.
C12_CancelWhileWaiting ==
  cancelPc = "gt_parked" =>
    /\ tokRet \in {"none", "err_canceled"}
    /\ tokRet = "none" => (pc = "gt_chosen" /\ gsel = "done")
    /\ tokRet = "err_canceled" => (pc = "exit" /\ result = "err_canceled")
    /\ tok = NoTok
    /\ ~authed
    /\ nExchange = 0
    /\ nWrites = 0
    /\ tokenFile = tokenFile0
C12_Witness ==
  /\ cancelPc = "gt_parked"
  /\ tokRet = "err_canceled"
  /\ result = "err_canceled"
  /\ \E h \in Handlers : hpc[h] = "send_code"

\* What holds of requests with an empty code in every state.
C13_EmptyCodeInv ==
  /\ \A h \in Handlers :
       (hpc[h] # "none" /\ hcode[h] = "") <=> hpc[h] = "bad_request"
  /\ \A i \in 1..Len(codeQ) : hcode[codeQ[i]] # ""
  /\ \A i \in 1..Len(shutQ) : hcode[shutQ[i]] # ""
  /\ gsel = "code" => authCode # ""
\* What the step that rejects a request leaves unchanged.
C13_EmptyCodeStep ==
  \A h \in Handlers :
    (hpc[h] = "none" /\ hpc'[h] = "bad_request") =>
      UNCHANGED << pc, gsel, authCode, codeQ, shutQ, shut, listener, serve,
                   tok, tokRet, tokenFile, nExchange >>
\* C13: a callback request whose code is empty ends as a bad request: it
\* is never queued on codeCh or shutdownCh, getToken never receives "" as
\* the code, and the step that handles it leaves getToken, the shutdown
\* goroutine, the server and the listener as they were, so that a later
\* request with a code is still served.
C13_EmptyCodeRejected == [](C13_EmptyCodeInv) /\ [][C13_EmptyCodeStep]_vars
C13_Witness ==
  /\ hpc[1] = "bad_request"
  /\ hcode[2] = "c1"
  /\ authCode = "c1"
  /\ tokRet = "ok"
  /\ tok = ExchangeResponse("c1")

\* C14: token.json is written only after a successful exchange; when
\* getToken fails because the listener cannot be opened, the context is
\* canceled or the exchange is rejected, token.json is what it was when the
\* process started, and a file that held a token is never changed.
C14_FileUnchangedOnFailure ==
  /\ nWrites > 0 => (nExchange = 1 /\ gsel = "code" /\ tokRet # "err_exchange")
  /\ tokRet \in {"err_listen", "err_canceled", "err_exchange"} =>
       (tokenFile = tokenFile0 /\ nWrites = 0)
  /\ tokenFile # tokenFile0 => nWrites = 1
  /\ tokenFile0.kind = "json" => tokenFile = tokenFile0
C14_Witness ==
  /\ tokRet = "err_exchange"
  /\ nExchange = 1
  /\ tokenFile0.kind = "garbage"
  /\ tokenFile = tokenFile0

\* C15: starting without a token file or with a stored token, token.json
\* is at every instant absent or a complete token, and another invocation
\* reading it never gets a partly written file.
C15_SaveIsAtomic ==
  tokenFile0.kind \in {"absent", "json"} =>
    /\ tokenFile.kind \in {"absent", "json"}
    /\ otherRead.kind \in {"none", "absent", "json"}

\* C16: when token.json is absent, unreadable or does not unmarshal,
\* getToken does not return at the load: it goes on to open the listener,
\* and every result it returns is a result of the authorization flow.
C16_BadFileStartsFlow ==
  (tokenFile0.kind # "json" /\ nGetToken > 0 /\ pc # "gt_read") =>
    /\ tokRet \in {"none", "ok", "err_listen", "err_exchange", "err_write",
                    "err_canceled"}
    /\ tokRet = "none" =>
         pc \in {"gt_listen", "gt_serve", "gt_select", "gt_parked",
                 "gt_chosen", "gt_write", "gt_writing"}
    /\ tokRet = "err_listen" => nListen = 0
    /\ tokRet \notin {"none", "err_listen"} => (nListen = 1 /\ urlShown)
C16_Witness ==
  /\ tokenFile0.kind = "unreadable"
  /\ pc = "gt_parked"
  /\ listener = "open"
  /\ urlShown

C18_OneFlowPerProcess ==
  /\ nGetToken <= 1
  /\ nListen <= 1
  /\ listener = "open" => (nListen = 1 /\ tokRet = "none")
  /\ authed => (nGetToken = 1 /\ tokRet = "ok")
C18_Witness ==
  /\ cmd = "ssh"
  /\ pc = "st_key"
  /\ authed
  /\ nGetToken = 1
  /\ nListen = 1

\* C19: when client_secret.json is missing or malformed, initClient returns
\* the configuration error: getToken is not called, no listener is opened,
\* no URL is presented, no request is made and authed stays false.
C19_BadSecretFailsFirst ==
  secret # "ok" =>
    /\ pc \in {"run", "ssh_init", "st_init", "exit"}
    /\ pc = "exit" => result = "err_config"
    /\ ~authed
    /\ nGetToken = 0
    /\ nListen = 0
    /\ listener = "none"
    /\ serve = "none"
    /\ ~urlShown
    /\ nExchange = 0
    /\ nPosts = 0
    /\ nGets = 0
    /\ tokRet = "none"
C19_Witness ==
  /\ secret = "malformed"
  /\ pc = "exit"
  /\ result = "err_config"

\* C20: when the environment handed to sshExec lacks the host, the port or
\* the user name, whatever its state, sshExec returns the 'unavailable'
\* error at once: the private key is not read, ssh.Dial is not called, no
\* connection or session exists and the terminal keeps its mode.
C20_UnavailableBeforeAnything ==
  (sshEnv # NoEnv /\ sshEnv.fields # ConnFields) =>
    /\ pc \in {"ssh_exec", "exit"}
    /\ pc = "exit" => result = "err_unavailable"
    /\ ~keyRead
    /\ nDials = 0
    /\ client = "none"
    /\ session = "none"
    /\ termMode = termMode0
    /\ ~ptyReq
    /\ ~shellReq
C20_Witness ==
  /\ sshEnv = [state |-> "RUNNING", fields |-> {"host", "user"}]
  /\ pc = "exit"
  /\ result = "err_unavailable"

\* C21: once term.MakeRaw has switched the terminal to raw mode, the
\* terminal is in raw mode only while sshExec runs, and when sshExec has
\* returned, by whatever path, it is back in the mode it had before the call.
C21_TerminalRestored ==
  /\ termMode = "raw" =>
       pc \in {"sx_size", "sx_pty", "sx_notify", "sx_shell", "sx_wait"}
  /\ (pc = "exit" /\ oldState # "none") =>
       (oldState = termMode0 /\ termMode = termMode0)
C21_Witness ==
  /\ result = "err_pty"
  /\ termMode0 = "cbreak"
  /\ oldState = "cbreak"
  /\ termMode = "cbreak"

\* C22: as long as term.MakeRaw has not succeeded the terminal keeps its
\* mode; a failure of the key read or parse, the dial, the session creation
\* or the terminal test returns with the mode unchanged and without a PTY
\* or shell request; when standard input is not a terminal sshExec ends
\* with the 'not a terminal' error once the session exists.
C22_EarlyFailureLeavesTerminal ==
  /\ oldState = "none" => termMode = termMode0
  /\ result \in {"err_key_read", "err_key_parse", "err_dial", "err_session",
                 "err_notty"} =>
       (oldState = "none" /\ termMode = termMode0 /\ ~ptyReq /\ ~shellReq)
  /\ ~isTerm =>
       /\ oldState = "none"
       /\ ~ptyReq
       /\ ~shellReq
       /\ pc \notin {"sx_raw", "sx_size", "sx_pty", "sx_notify", "sx_shell",
                     "sx_wait"}
       /\ (pc = "exit" /\ session # "none") => result = "err_notty"
C22_Witness ==
  /\ ~isTerm
  /\ result = "err_notty"
  /\ termMode0 = "cbreak"
  /\ termMode = "cbreak"
  /\ session = "closed"

\* What the result of sshExec says about how far it got.
C23_ResultInv ==
  /\ (pc = "exit" /\ remote # "none") =>
       result = IF remote = "zero" THEN "nil"
                ELSE IF remote = "nonzero" THEN "err_exit" ELSE "err_lost"
  /\ result \in {"nil", "err_exit", "err_lost"} => (remote # "none" /\ shellReq)
  /\ result \in {"err_key_read", "err_key_parse"} => (keyRead /\ nDials = 0)
  /\ result = "err_dial" => (nDials = 1 /\ client = "none")
  /\ result = "err_session" => (client = "closed" /\ session = "none")
  /\ result = "err_notty" => (session = "closed" /\ ~isTerm)
  /\ result = "err_raw" => (session = "closed" /\ isTerm /\ oldState = "none")
  /\ result = "err_size" => (oldState # "none" /\ dims = NoSize /\ ~ptyReq)
  /\ result = "err_pty" => (ptyReq /\ ~notifyOn /\ ~shellReq)
  /\ result = "err_shell" => (shellReq /\ remote = "none")
\* sshExec leaves session.Wait only after the remote side ended the session.
C23_WaitStep == (pc = "sx_wait" /\ pc' # "sx_wait") => remote # "none"
\* C23: after a successful shell request sshExec stays in session.Wait
\* until the remote side ends the session and returns its outcome: nil for
\* exit status 0, the exit error otherwise; an earlier failing step returns
\* its own error, which tells the step.
C23_RemoteOutcomeReturned == [](C23_ResultInv) /\ [][C23_WaitStep]_vars
C23_Witness ==
  /\ pc = "exit"
  /\ remote = "nonzero"
  /\ result = "err_exit"
  /\ termMode = termMode0

\* C24: when sshExec has returned, the resize goroutine has ended, SIGWINCH
\* is no longer routed to it and session.WindowChange is never called on
\* the ended session.
C24_RelayEndsWithSession ==
  pc = "exit" =>
    /\ relay \notin {"waiting", "query", "send"}
    /\ ~notifyOn
    /\ nLate = 0

\* What holds of the resize goroutine in every state.
C25_RelayInv ==
  /\ relay \in {"none", "waiting", "query", "send"}
  /\ (relay = "none") <=> ~notifyOn
  /\ nTaken = nHandled + (IF relay \in {"query", "send"} THEN 1 ELSE 0)
  /\ (pc = "sx_wait" /\ remote # "none") => ENABLED sshExecWait
\* What a step of the resize goroutine does.
C25_RelayStep ==
  /\ nTaken' # nTaken => (winch /\ ~winch' /\ relay = "waiting" /\ relay' = "query")
  /\ (relay = "query" /\ relay' = "send") => relaySize' = termSize
  /\ (relay = "query" /\ relay' # "query") => relay' \in {"send", "waiting"}
  /\ (relay = "send" /\ relay' # "send") =>
       /\ relay' = "waiting"
       /\ nHandled' = nHandled + 1
       /\ sentDims' \in {sentDims, [rows |-> relaySize.h, cols |-> relaySize.w]}
  /\ (relay # "none" /\ relay' # relay) =>
       UNCHANGED << pc, result, remote, session, client, termMode >>
  /\ pc' # pc => UNCHANGED << winch, relaySize, nTaken, nHandled >>
\* C25: every signal the resize goroutine takes leads to one size query
\* and, when the query succeeds, one window-change call carrying the rows
\* and columns just read; a failed query or call is skipped and the
\* goroutine goes on waiting; its steps change nothing of the foreground,
\* and the foreground's return from session.Wait never waits for it.
C25_ResizeForwarded == [](C25_RelayInv) /\ [][C25_RelayStep]_vars
C25_Witness ==
  /\ pc = "sx_wait"
  /\ nTaken = 1
  /\ nHandled = 1
  /\ termSize = [w |-> "w2", h |-> "h2"]
  /\ sentDims = [rows |-> "h2", cols |-> "w2"]

\* A cancellation during session.Wait changes nothing of the session.
C26_CancelStep ==
  (pc = "sx_wait" /\ ~ctxDone /\ ctxDone') =>
    UNCHANGED << pc, result, session, client, termMode, remote >>
\* C26: once the shell has been requested sshExec never returns the
\* cancellation error: a cancellation during session.Wait leaves the
\* session as it is, and sshExec returns from the wait only with the outcome
\* of a session the remote side has ended.
C26_CancelKeepsSession ==
  /\ [](shellReq => result # "err_canceled")
  /\ []((pc = "exit" /\ cancelPc = "sx_wait") => remote # "none")
  /\ [][C26_CancelStep]_vars
C26_Witness ==
  /\ cancelPc = "sx_wait"
  /\ pc = "exit"
  /\ remote = "zero"
  /\ result = "nil"

\* What holds of the ssh command in every state.
C27_StartFirstInv ==
  /\ pc \in {"ssh_get", "ssh_get_wait", "ssh_exec", "sx_key", "sx_dial",
              "sx_session", "sx_term", "sx_raw", "sx_size", "sx_pty",
              "sx_notify", "sx_shell", "sx_wait"} =>
       (cmd = "ssh" /\ startRet = "nil" /\ nPosts = 1)
  /\ sshEnv # NoEnv => startRet = "nil"
  /\ startRet \notin {"none", "nil"} =>
       (pc = "exit" /\ sshEnv = NoEnv /\ ~keyRead /\ nDials = 0)
  /\ (pc = "exit" /\ sshEnv = NoEnv) => (~keyRead /\ nDials = 0)
  /\ nDials > 0 =>
       /\ obs # << >>
       /\ obs[Len(obs)] = "RUNNING"
       /\ sshEnv.state = "RUNNING"
       /\ sshEnv.fields = ConnFields
\* The value handed to sshExec is the provider's environment at the time of
\* ssh's own get, and it is set by nothing else.
C27_FreshGetStep ==
  /\ (pc = "ssh_get_wait" /\ pc' = "ssh_exec") =>
       sshEnv' = [state |-> envState, fields |-> envFields]
  /\ sshEnv' # sshEnv => (pc = "ssh_get_wait" /\ pc' = "ssh_exec")
\* C27: ssh dials only after start returned nil having observed RUNNING
\* (a ':start' request was issued first) and after its own get returned
\* the environment; sshExec gets the value of that get; when start or the
\* get fails, sshExec is not called.
C27_StartThenFreshGet == [](C27_StartFirstInv) /\ [][C27_FreshGetStep]_vars
C27_Witness ==
  /\ cmd = "ssh"
  /\ obs = << "DISABLED", "RUNNING" >>
  /\ nPosts = 1
  /\ nDials = 1
  /\ client = "open"

\* C28: the managed key pair is generated lazily and once. The key files
\* change only in ensureSSHKey of a start or ssh invocation that found no
\* private key file; an existing private key file is never overwritten, and
\* the info and key commands never reach ensureSSHKey.
C28_NeverFromOthers ==
  cmd \in {"info", "key_list", "key_add", "key_remove"}
    => /\ pc \notin {"st_init", "st_key", "st_pub"}
       /\ privKey # "k1"
       /\ pubKey.key # "k1"
C28_KeyStep ==
  (privKey' # privKey \/ pubKey' # pubKey)
    => /\ pc = "st_key"
       /\ cmd \in {"start", "ssh"}
       /\ privKey = "none"
       /\ privKey' \in {"k1", "partial"}
       /\ pubKey' \in {pubKey, [key |-> "k1", nl |-> 1], [key |-> "partial", nl |-> 0]}
C29_StartCarriesManagedKey ==
  /\ Len(posted) = nPosts
  /\ \A i \in DOMAIN posted :
       /\ Len(posted[i]) = 1
       /\ pubKey.key # "none"
       /\ posted[i][1].key = pubKey.key
       /\ posted[i][1].nl = (IF pubKey.nl = 0 THEN 0 ELSE pubKey.nl - 1)
\* A ':start' request was sent for a public key file ending in two newlines.
C29_Witness ==
  /\ nPosts = 1
  /\ pubKey.nl = 2
  /\ posted[1][1].nl = 1

\* The runes info logs for a running environment.
C30_Running == << "R", "u", "n", "n", "i", "n", "g", "." >>
\* info got its response and returned.
C30_InfoDone == cmd = "info" /\ pc = "exit" /\ infoEnv # NoEnv
\* C30 as stated: for a get() result with the three connection fields
\* populated, one line of info's output contains the host, the port and the
\* username.
C30_OneLineHasAll ==
  (C30_InfoDone /\ infoEnv.fields = ConnFields)
    => \E i \in DOMAIN out : ConnFields \subseteq out[i].has
\* C30: info reports the state lowercased with its first character
\* uppercased ("Running." for RUNNING); with the three connection fields
\* populated it logs the host, the port and the username on a line each;
\* with any of them absent it logs that SSH is unavailable; in both cases it
\* returns nil.
C30_InfoOutput ==
  C30_InfoDone
    => /\ result = "nil"
       /\ out[1].kind = "state"
       /\ \E i \in DOMAIN UpperLetters : out[1].text[1] = UpperLetters[i]
       /\ infoEnv.state = "RUNNING" => out[1].text = C30_Running
       /\ IF infoEnv.fields = ConnFields
            THEN /\ \A f \in ConnFields : \E i \in DOMAIN out : out[i].has = {f}
                 /\ \A i \in DOMAIN out : out[i].kind # "ssh_unavailable"
            ELSE /\ \E i \in DOMAIN out : out[i].kind = "ssh_unavailable"
                 /\ \A i \in DOMAIN out : out[i].has = {}
\* info described a running environment with its connection details.
C30_Witness ==
  /\ C30_InfoDone
  /\ infoEnv = [state |-> "RUNNING", fields |-> ConnFields]
  /\ Len(out) > 3

\* C31: every operation is one request and none is sent again. At most one
\* request is in flight; a request that failed is the last one sent and its
\* error is what the process returns; start sends one ':start'; keyAdd and
\* keyRemove send exactly one request, of their own operation, and return
\* nil only when it succeeded.
C31_OneRequestPerOperation ==
  /\ Len(resps) \in {Len(sent), Len(sent) - 1}
  /\ \A i \in DOMAIN resps :
       resps[i] # "ok" => /\ i = Len(sent)
                          /\ pc = "exit"
                          /\ result = resps[i]
  /\ \A i, j \in DOMAIN sent : (sent[i] = "start" /\ sent[j] = "start") => i = j
  /\ cmd \in {"key_add", "key_remove"} =>
       /\ Len(sent) <= 1
       /\ \A i \in DOMAIN sent :
            sent[i] = IF cmd = "key_add" THEN "addPublicKey" ELSE "removePublicKey"
       /\ result = "nil" => resps = << "ok" >>
       /\ (pc = "exit" /\ authed) => Len(sent) = 1
\* keyAdd's request was refused by the provider and keyAdd returned that.
C31_Witness ==
  /\ cmd = "key_add"
  /\ pc = "exit"
  /\ sent = << "addPublicKey" >>
  /\ resps = << "err_status" >>
  /\ result = "err_status"

\* Handlers whose send on codeCh was received.
C33_HandedOff == { h \in Handlers : hpc[h] \in {"at_shutdown", "send_shutdown", "done"} }

\* C32: no callback handler stays blocked forever. Only getToken's select
\* receives from codeCh and only the shutdown goroutine's select receives
\* from shutdownCh, each once: a handler in its send on codeCh has getToken's
\* select still ahead of it, and a handler at or in its send on shutdownCh
\* has the shutdown goroutine's select still ahead of it.
C32_HandlersTerminate ==
  \A h \in Handlers :
    /\ hpc[h] = "send_code" => (gsel = "none" /\ tokRet = "none")
    /\ hpc[h] \in {"at_shutdown", "send_shutdown"} => shut \in {"select", "parked"}

\* C33: one getToken call receives at most one code, calls Exchange at most
\* once and writes the token file at most once, however many callbacks
\* carry codes; the code exchanged is that of the one handler whose send
\* was received, and the token returned is the exchange's answer to it.
C33_OneCodeConsumed ==
  /\ nExchange <= 1
  /\ nWrites <= 1
  /\ Cardinality(C33_HandedOff) <= 1
  /\ \A h \in C33_HandedOff : authCode = hcode[h]
  /\ nExchange = 1 => C33_HandedOff # {}
  /\ (tokRet = "ok" /\ nExchange = 1) =>
       tok.access = (IF authCode = "c1" THEN "a1" ELSE "a2")
\* Two callbacks carried codes; one was exchanged and saved, the other
\* handler is still in its send.
C33_Witness ==
  /\ tokRet = "ok"
  /\ nExchange = 1
  /\ nWrites = 1
  /\ \E h, g \in Handlers :
       /\ h \in C33_HandedOff
       /\ hpc[g] = "send_code"
       /\ hcode[g] # hcode[h]

\* C34: the state parameter of a callback plays no part. Whatever its state
\* value, a callback is refused exactly when its code is empty, the code
\* getToken receives is the callback's code, and the token returned is the
\* exchange's answer to that code.
C34_StateIgnored ==
  /\ \A h \in Handlers :
       hpc[h] # "none" => (hpc[h] = "bad_request" <=> hcode[h] = "")
  /\ \A h \in C33_HandedOff : authCode = hcode[h]
  /\ (tokRet = "ok" /\ nExchange = 1) =>
       tok = [kind |-> "tok", access |-> (IF authCode = "c1" THEN "a1" ELSE "a2"),
              raw |-> TRUE]
\* getToken returned the token for the code of a callback whose state was
\* not the one sent.
C34_Witness ==
  /\ tokRet = "ok"
  /\ \E h \in C33_HandedOff : hstate[h] = "forged"

\* C35: whenever ensureSSHKey has returned nil, the private key file holds a
\* key and the public key file holds the public key of that same pair,
\* whatever invocations came before and however their writes ended.
C35_KeyPairConsistent ==
  pc = "st_pub" => (privKey \in {"k0", "k1"} /\ pubKey.key = privKey)

\* C36: once the session is open, the resize goroutine idle with no signal
\* pending and none of its calls failed, the rows and columns last sent to
\* the remote side are those of the local terminal.
C36_ResizeReachesRemote ==
  (/\ pc \in {"sx_shell", "sx_wait"}
   /\ session = "open"
   /\ relay = "waiting"
   /\ ~winch
   /\ ~relayErr)
    => sentDims = WireDims(termSize)

\* C39: when sshExec has returned, the connection it opened is closed and
\* so is the session channel it opened; when raw mode was entered,
\* term.Restore ran before session.Close and before client.Close.
C39_ClosedOnReturn ==
  pc = "exit" =>
    /\ client # "open"
    /\ session # "open"
    /\ deferred = << >>
    /\ client = "closed" => \E i \in DOMAIN ran : ran[i] = "client.Close"
    /\ session = "closed" => \E i \in DOMAIN ran : ran[i] = "session.Close"
    /\ oldState # "none" =>
         \E i, j, k \in DOMAIN ran :
           /\ ran[i] = "term.Restore"
           /\ ran[j] = "session.Close"
           /\ ran[k] = "client.Close"
           /\ i < j
           /\ i < k
\* sshExec returned after the shell ended; terminal, channel and connection
\* were released in this order.
C39_Witness ==
  /\ pc = "exit"
  /\ result = "nil"
  /\ termMode0 = "cbreak"
  /\ termMode = "cbreak"
  /\ ran = << "term.Restore", "session.Close", "client.Close" >>

\* C37: start goes through client initialisation, the key pair, the read
\* of the public key, one ':start' POST and the polls in this order, and a
\* step that fails is the last: no request before the client, the key pair
\* and the public key are there, no request after a failed key step, the
\* POST is the first request and the only POST, and a get() follows only a
\* POST that succeeded.
C37_StartOrdered ==
  cmd \in {"start", "ssh"} =>
    /\ pc = "st_key" => (authed /\ reqKeys = << >> /\ sent = << >>)
    /\ pc = "st_pub" => (authed /\ privKey # "none" /\ reqKeys = << >> /\ sent = << >>)
    /\ pc = "st_post" => (reqKeys # << >> /\ sent = << >>)
    /\ pc \in Polling => (tickerOn /\ resps # << >> /\ resps[1] = "ok")
    /\ result = "err_config" => (startRet = "none" /\ reqKeys = << >> /\ sent = << >>)
    /\ startRet = "err_key" => (pc = "exit" /\ reqKeys = << >> /\ sent = << >>)
    /\ startRet = "err_public_key" =>
         (pc = "exit" /\ pubKey = NoPub /\ reqKeys = << >> /\ sent = << >>)
    /\ sent # << >> =>
         (authed /\ privKey # "none" /\ pubKey # NoPub /\ reqKeys # << >>)
    /\ \A i \in DOMAIN sent : sent[i] = "start" <=> i = 1
    /\ Len(sent) > 1 => resps[1] = "ok"
    /\ (resps # << >> /\ resps[1] # "ok") =>
         (pc = "exit" /\ startRet = resps[1] /\ Len(sent) = 1 /\ ~tickerOn)
\* start returned the error of its POST, having sent nothing else.
C37_Witness ==
  /\ cmd = "start"
  /\ pc = "exit"
  /\ sent = << "start" >>
  /\ resps = << "err_status" >>
  /\ result = "err_status"

\* The command lines without a command, with a command or key subcommand
\* Run does not know, and 'key', 'key add', 'key remove' with nothing after.
C38_InvalidLines ==
  { << >>, << "stop" >>, << "key" >>, << "key", "show" >>, << "key", "add" >>,
    << "key", "remove" >> }
\* C38: on such a command line Run returns the invalid-arguments error as
\* its first and only step: the state directory is not created, no file of
\* it is read or written, getToken is not called, no listener is opened and
\* no request is sent.
C38_ValidatedFirst ==
  args \in C38_InvalidLines =>
    /\ pc \in {"run", "exit"}
    /\ pc = "exit" => result = "err_invalid_args"
    /\ touched = {}
    /\ ~authed
    /\ nGetToken = 0
    /\ nListen = 0
    /\ listener = "none"
    /\ sent = << >>
    /\ tokenFile = tokenFile0
    /\ ~keyRead
    /\ nDials = 0
\* 'key add' without a key was refused.
C38_Witness ==
  /\ args = << "key", "add" >>
  /\ pc = "exit"
  /\ result = "err_invalid_args"
====
